---- MODULE Spec2Model ----
(***************************************************************************)
(* A model of the gravity / integration core of raylib-nbody:              *)
(*   Collision::resolve          (systems/Collision.hpp, merge mode)       *)
(*   Physics::compute_gravity    (systems/Physics.hpp)                     *)
(*   Physics::integrate          (systems/Physics.hpp)                     *)
(*   Physics::register_systems   (the per-frame pipeline)                  *)
(*   SpatialPartition            (physics/SpatialPartition.hpp)            *)
(*                                                                         *)
(* Numbers.  Doubles and floats are modelled by integers on a grid; the    *)
(* rounding of a quotient or of a root is modelled by truncation to that   *)
(* grid.  A non-finite value (NaN, +Inf, -Inf) is the single absorbing     *)
(* value NonFinite: every arithmetic operation with a non-finite operand   *)
(* yields a non-finite result in the paths modelled here.                  *)
(*                                                                         *)
(* Entities.  The flecs world holds the bodies 1..NumBodies; w.each visits *)
(* the live ones in index order.  destruct() removes the entity at once.   *)
(***************************************************************************)
EXTENDS Integers, Sequences, FiniteSets, TLC

----------------------------------------------------------------------------
(* Bounds of the model *)

NumBodies == 3

MaxFrames == 2

----------------------------------------------------------------------------
(* Arithmetic on the grid *)

NonFinite == -1000000

IsFinite(x) == x # NonFinite

Abs(x) == IF x < 0 THEN -x ELSE x

Max(a, b) == IF a >= b THEN a ELSE b

Min(a, b) == IF a <= b THEN a ELSE b

Add(a, b) == IF IsFinite(a) /\ IsFinite(b) THEN a + b ELSE NonFinite

Sub(a, b) == IF IsFinite(a) /\ IsFinite(b) THEN a - b ELSE NonFinite

Mul(a, b) == IF IsFinite(a) /\ IsFinite(b) THEN a * b ELSE NonFinite

\* a / b: x/0 is +-Inf or NaN; the quotient is rounded towards zero.
QDiv(a, b) ==
    IF ~IsFinite(a) \/ ~IsFinite(b) \/ b = 0 THEN NonFinite
    ELSE IF (a < 0) = (b < 0) THEN Abs(a) \div Abs(b)
    ELSE -(Abs(a) \div Abs(b))

RECURSIVE RootSearch(_, _, _, _)
\* The largest r in lo..hi with r^k <= n (k = 2 or 3), by bisection.
RootSearch(n, k, lo, hi) ==
    IF lo >= hi THEN lo
    ELSE LET mid == (lo + hi + 1) \div 2
             pw  == IF k = 2 THEN mid * mid ELSE mid * mid * mid
         IN  IF pw <= n THEN RootSearch(n, k, mid, hi)
             ELSE RootSearch(n, k, lo, mid - 1)

\* std::sqrt on the grid (the search stops at the largest root of the integers)
ISqrt(n) ==
    IF ~IsFinite(n) \/ n < 0 THEN NonFinite ELSE RootSearch(n, 2, 0, Min(n, 46340))

\* std::cbrt on the grid
ICbrt(n) ==
    IF ~IsFinite(n) \/ n < 0 THEN NonFinite ELSE RootSearch(n, 3, 0, Min(n, 1290))

Vec(x, y) == <<x, y>>

Zero2 == <<0, 0>>

VFinite(u) == IsFinite(u[1]) /\ IsFinite(u[2])

----------------------------------------------------------------------------
(* Floats.  The quadtree works on raylib::Vector2 (float) copies of the    *)
(* double positions.  A float keeps FloatBits significant bits, so the     *)
(* cast rounds (to nearest, ties to even); below the grid the tree's       *)
(* floats have TreeBits more binary places, and a half-size halved past    *)
(* the last place underflows to 0.                                         *)

FloatBits == 4

TreeBits == 2

RECURSIVE Pow2(_)
Pow2(k) == IF k <= 0 THEN 1 ELSE 2 * Pow2(k - 1)

TreeScale == Pow2(TreeBits)

RECURSIVE RoundStep(_, _)
\* The spacing of the floats around n >= 0: 1 below 2^FloatBits, then doubling.
RoundStep(n, step) ==
    IF n < step * Pow2(FloatBits) THEN step ELSE RoundStep(n, 2 * step)

\* static_cast<float>(double)
ToFloat(x) ==
    IF ~IsFinite(x) THEN NonFinite
    ELSE LET n == Abs(x)
             step == RoundStep(n, 1)
             q == n \div step
             rem == n % step
             up == (2 * rem > step) \/ (2 * rem = step /\ q % 2 = 1)
             r == (IF up THEN q + 1 ELSE q) * step
         IN  IF x < 0 THEN -r ELSE r

\* A float position on the tree's grid (TreeScale steps per unit)
ToTree(x) == Mul(ToFloat(x), TreeScale)

\* The width of int, scaled down with the grid
IntBits == 9

IntMax == Pow2(IntBits - 1) - 1

IntMin == -Pow2(IntBits - 1)

----------------------------------------------------------------------------
(* Bodies: the components of one entity *)

Ents == 1..NumBodies

Dead ==
    [alive |-> FALSE, p |-> Zero2, v |-> Zero2, a |-> Zero2, a0 |-> Zero2,
     m |-> 0, pinned |-> FALSE, hasRadius |-> FALSE, radius |-> 0]

MkBody(p, v, m, pinned) ==
    [alive |-> TRUE, p |-> p, v |-> v, a |-> Zero2, a0 |-> Zero2,
     m |-> m, pinned |-> pinned, hasRadius |-> FALSE, radius |-> 0]

\* Cubic length units per mass unit, 3 / (4 pi rho), in the units of the grid.
RadiusCoef == 8

\* r = cbrt(3 max(1, M) / (4 pi rho))
RadiusFromMass(m) == ICbrt(RadiusCoef * Max(1, m))

\* Collision::radius_of: the Radius component if present, otherwise from the mass
radius_of(b) == IF b.hasRadius THEN b.radius ELSE RadiusFromMass(b.m)

----------------------------------------------------------------------------
(* Collision::resolve, merge mode (kElastic = false) *)

\* The filter of the snapshot lambda: finite position, finite positive mass.
\* The velocity is not tested.
Collidable(b) == b.alive /\ VFinite(b.p) /\ IsFinite(b.m) /\ b.m > 0

BodyRefOf(w, e) ==
    [e |-> e, p |-> w[e].p, v |-> w[e].v, m |-> w[e].m,
     r |-> radius_of(w[e]), pinned |-> w[e].pinned]

RECURSIVE Snapshot(_, _)
\* w.each in entity order, from entity e on
Snapshot(w, e) ==
    IF e > NumBodies THEN << >>
    ELSE IF Collidable(w[e]) THEN <<BodyRefOf(w, e)>> \o Snapshot(w, e + 1)
    ELSE Snapshot(w, e + 1)

\* dist2 > rsum * rsum  =>  continue
Overlap(A, B) ==
    LET dx == B.p[1] - A.p[1]
        dy == B.p[2] - A.p[2]
        rsum == A.r + B.r
    IN  ~(dx * dx + dy * dy > rsum * rsum)

\* A variant of a_survives with the comparison of the masses turned round
a_survives_lighter(A, B) == (A.m <= B.m) \/ B.pinned

\* const bool a_survives = (A.m >= B.m) || B.pinned;
a_survives(A, B) == (A.m >= B.m) \/ B.pinned

\* Momentum-conserving velocity and mass-weighted position of the merged body
\* M = double(S.m) + double(D.m)
MassSum(S, D) == Add(S.m, D.m)

\* The mass written back: static_cast<float>(M)
MergedMass(S, D) == ToFloat(MassSum(S, D))

\* A variant of MergedVel that keeps the survivor's velocity
MergedVelOfSurvivor(S, D) == S.v

MergedVel(S, D) ==
    LET M == MassSum(S, D)
    IN  Vec(QDiv(Add(Mul(S.m, S.v[1]), Mul(D.m, D.v[1])), M),
            QDiv(Add(Mul(S.m, S.v[2]), Mul(D.m, D.v[2])), M))

MergedPos(S, D) ==
    LET M == MassSum(S, D)
    IN  Vec(QDiv(Add(Mul(S.m, S.p[1]), Mul(D.m, D.p[1])), M),
            QDiv(Add(Mul(S.m, S.p[2]), Mul(D.m, D.p[2])), M))

\* "Apply to survivor entity": the get_mut writes and update_radius_from_mass
ApplySurvivor(b, S, D) ==
    [b EXCEPT !.m = MergedMass(S, D), !.v = MergedVel(S, D), !.p = MergedPos(S, D),
              !.a = Zero2, !.a0 = Zero2, !.pinned = S.pinned \/ D.pinned,
              !.hasRadius = TRUE, !.radius = RadiusFromMass(MergedMass(S, D))]

\* "Update snapshot for survivor"
UpdateSnapshot(S, D) ==
    [S EXCEPT !.m = MergedMass(S, D), !.v = MergedVel(S, D), !.p = MergedPos(S, D),
              !.pinned = S.pinned \/ D.pinned,
              !.r = RadiusFromMass(MergedMass(S, D))]

\* A variant of BothPinned without the early continue
BothPinnedIgnored(S, D) == FALSE

\* if (D.pinned && S.pinned) continue;
BothPinned(S, D) == D.pinned /\ S.pinned

\* The state of one pass: the snapshot, the alive flags, the world, and a
\* record of every overlapping pair the pass met.
PassInit(w) ==
    LET snap == Snapshot(w, 1)
    IN  [snap |-> snap, al |-> [k \in 1..Len(snap) |-> TRUE], w |-> w,
         log |-> << >>, status |-> "ok"]

\* The body of the inner loop for the pair (i, j), alive[j] being set.
\* deadWrite: what a write through the handle of an entity destroyed earlier in
\* the pass does: "crash" (the null Mass pointer is dereferenced) or "noop".
PairStep(st, i, j, deadWrite) ==
    LET A == st.snap[i]
        B == st.snap[j]
        aS == a_survives(A, B)
        S == IF aS THEN A ELSE B
        D == IF aS THEN B ELSE A
        si == IF aS THEN i ELSE j
        di == IF aS THEN j ELSE i
        ev == [a |-> A.e, b |-> B.e, s |-> S.e, d |-> D.e,
               sm |-> S.m, dm |-> D.m, sv |-> S.v, dv |-> D.v,
               sp |-> S.p, dp |-> D.p,
               sPinned |-> S.pinned, dPinned |-> D.pinned,
               sLive |-> st.w[S.e].alive, dLive |-> st.w[D.e].alive]
    IN  IF ~Overlap(A, B) THEN st
        ELSE IF BothPinned(S, D)
        THEN [st EXCEPT !.log = Append(@, ev @@ [kind |-> "bothPinned"])]
        ELSE IF ~st.w[S.e].alive /\ deadWrite = "crash"
        THEN [st EXCEPT !.log = Append(@, ev @@ [kind |-> "crash"]),
                        !.status = "crashed"]
        ELSE [st EXCEPT
                !.w = [e \in Ents |->
                         IF e = D.e THEN Dead
                         ELSE IF e = S.e /\ st.w[e].alive
                              THEN ApplySurvivor(st.w[e], S, D)
                         ELSE st.w[e]],
                !.al = [@ EXCEPT ![di] = FALSE],
                !.snap = [@ EXCEPT ![si] = UpdateSnapshot(S, D)],
                !.log = Append(@, ev @@ [kind |-> "merge"])]

RECURSIVE InnerLoop(_, _, _, _)
\* for (j = i + 1; j < n; ++j) { if (!alive[j]) continue; ... }
InnerLoop(st, i, j, deadWrite) ==
    IF j > Len(st.snap) \/ st.status # "ok" THEN st
    ELSE InnerLoop(IF st.al[j] THEN PairStep(st, i, j, deadWrite) ELSE st,
                   i, j + 1, deadWrite)

RECURSIVE OuterLoop(_, _, _)
\* for (i = 0; i < n; ++i) { if (!alive[i]) continue; ... }
OuterLoop(st, i, deadWrite) ==
    IF i > Len(st.snap) \/ st.status # "ok" THEN st
    ELSE OuterLoop(IF st.al[i] THEN InnerLoop(st, i, i + 1, deadWrite) ELSE st,
                   i + 1, deadWrite)

\* Collision::resolve(w): the final pass state
resolve(w, deadWrite) == OuterLoop(PassInit(w), 1, deadWrite)

----------------------------------------------------------------------------
(* The pairwise contribution, shared by the exact evaluator and the tree   *)
(*   r2 = dx*dx + dy*dy + eps2; invR = 1/sqrt(r2); invR3 = invR^3          *)
(*   a  = G * m * (dx, dy) * invR3                                         *)
(* dx, dy are on the tree's grid; the result is on the unit grid.          *)

PairAccel(G, m, dx, dy, eps2) ==
    LET r2 == Add(Add(Mul(dx, dx), Mul(dy, dy)), Mul(eps2, TreeScale * TreeScale))
        r  == ISqrt(r2)
        r3 == Mul(Mul(r, r), r)
        k2 == TreeScale * TreeScale
    IN  Vec(QDiv(Mul(Mul(Mul(G, m), dx), k2), r3),
            QDiv(Mul(Mul(Mul(G, m), dy), k2), r3))

VAdd(u, w) == Vec(Add(u[1], w[1]), Add(u[2], w[2]))

----------------------------------------------------------------------------
(* SpatialPartition: the Barnes-Hut quadtree.  A tree is a function from   *)
(* paths (sequences of quadrants 0..3 = NW, NE, SW, SE) to nodes; a node's *)
(* body is an index into the body list, 0 for nullptr.                     *)

Node(center, halfSize) ==
    [center |-> center, halfSize |-> halfSize, mass |-> 0, com |-> Zero2, body |-> 0]

\* Node::is_leaf: !children[0]
is_leaf(T, path) == Append(path, 0) \notin DOMAIN T

\* A variant of get_quadrant in which ties go east and south
get_quadrantTiesSouthEast(node, point) ==
    LET east == point[1] >= node.center[1]
        south == point[2] >= node.center[2]
    IN  IF east THEN (IF south THEN 3 ELSE 1) ELSE (IF south THEN 2 ELSE 0)

\* get_quadrant: east = x > center.x, south = y > center.y
get_quadrant(node, point) ==
    LET east == point[1] > node.center[1]
        south == point[2] > node.center[2]
    IN  IF east THEN (IF south THEN 3 ELSE 1) ELSE (IF south THEN 2 ELSE 0)

\* subdivide: four children of half the half-size
subdivide(T, path) ==
    LET node == T[path]
        hs == node.halfSize \div 2
        cx == node.center[1]
        cy == node.center[2]
    IN  T @@ (Append(path, 0) :> Node(Vec(cx - hs, cy - hs), hs))
          @@ (Append(path, 1) :> Node(Vec(cx + hs, cy - hs), hs))
          @@ (Append(path, 2) :> Node(Vec(cx - hs, cy + hs), hs))
          @@ (Append(path, 3) :> Node(Vec(cx + hs, cy + hs), hs))

\* The children of a node of half-size 0 are copies of it.  If the resident
\* and the new body fall in the same quadrant of such a node, every further
\* iteration of insert_iterative repeats this one: the loop never returns.
LoopsForever(node, existingPos, newPos) ==
    node.halfSize = 0 /\ get_quadrant(node, existingPos) = get_quadrant(node, newPos)

RECURSIVE insert_iterative(_, _, _, _, _)
\* insert_iterative(node, bodyPtr), from the node at path; bodies is the list,
\* bi the index of the body inserted, subdiv counts the subdivisions done.
insert_iterative(T, bodies, path, bi, subdiv) ==
    LET node == T[path]
    IN  IF is_leaf(T, path)
        THEN IF node.body = 0
             THEN [T |-> [T EXCEPT ![path].body = bi], status |-> "built",
                   subdiv |-> subdiv]
             ELSE IF LoopsForever(node, bodies[node.body].pos, bodies[bi].pos)
             THEN [T |-> T, status |-> "diverged", subdiv |-> subdiv]
             ELSE LET existing == node.body
                      T1 == [subdivide(T, path) EXCEPT ![path].body = 0]
                      cur == Append(path, get_quadrant(node, bodies[existing].pos))
                      \* the fresh child is an empty leaf: the inner loop
                      \* places the resident body at once
                      T2 == [T1 EXCEPT ![cur].body = existing]
                  IN  insert_iterative(T2, bodies,
                          Append(path, get_quadrant(node, bodies[bi].pos)),
                          bi, subdiv + 1)
        ELSE insert_iterative(T, bodies,
                 Append(path, get_quadrant(node, bodies[bi].pos)), bi, subdiv)

RECURSIVE InsertAll(_, _, _)
\* for (auto& body : bodies) insert_iterative(root.get(), &body);
InsertAll(r, bodies, bi) ==
    IF bi > Len(bodies) \/ r.status # "built" THEN r
    ELSE InsertAll(insert_iterative(r.T, bodies, << >>, bi, r.subdiv), bodies, bi + 1)

\* A variant of AggregateNode whose centre of mass is the plain mean of the
\* centres of the non-empty children
AggregateNodeUnweighted(T, path) ==
    LET ch(q) == T[Append(path, q)]
        w(q) == IF ch(q).mass > 0 THEN ch(q).mass ELSE 0
        c(q) == IF ch(q).mass > 0 THEN 1 ELSE 0
        mass_sum == w(0) + w(1) + w(2) + w(3)
        count == c(0) + c(1) + c(2) + c(3)
        sx == c(0) * ch(0).com[1] + c(1) * ch(1).com[1]
              + c(2) * ch(2).com[1] + c(3) * ch(3).com[1]
        sy == c(0) * ch(0).com[2] + c(1) * ch(1).com[2]
              + c(2) * ch(2).com[2] + c(3) * ch(3).com[2]
    IN  [T EXCEPT ![path].mass = mass_sum,
                  ![path].com = IF mass_sum > 0
                                THEN Vec(QDiv(sx, count), QDiv(sy, count))
                                ELSE Zero2]

\* An internal node from its children: the masses and mass-weighted centres
\* of the children whose mass is positive
AggregateNode(T, path) ==
    LET ch(q) == T[Append(path, q)]
        w(q) == IF ch(q).mass > 0 THEN ch(q).mass ELSE 0
        mass_sum == w(0) + w(1) + w(2) + w(3)
        sx == w(0) * ch(0).com[1] + w(1) * ch(1).com[1]
              + w(2) * ch(2).com[1] + w(3) * ch(3).com[1]
        sy == w(0) * ch(0).com[2] + w(1) * ch(1).com[2]
              + w(2) * ch(2).com[2] + w(3) * ch(3).com[2]
    IN  [T EXCEPT ![path].mass = mass_sum,
                  ![path].com = IF mass_sum > 0
                                THEN Vec(QDiv(sx, mass_sum), QDiv(sy, mass_sum))
                                ELSE Zero2]

\* A leaf: the mass and position of its body, or zero
AggregateLeaf(T, bodies, path) ==
    IF T[path].body # 0
    THEN [T EXCEPT ![path].mass = bodies[T[path].body].mass,
                   ![path].com = bodies[T[path].body].pos]
    ELSE [T EXCEPT ![path].mass = 0, ![path].com = Zero2]

RECURSIVE aggregate(_, _, _)
\* aggregate_mass_com_iterative, post-order from the node at path
aggregate(T, bodies, path) ==
    IF is_leaf(T, path) THEN AggregateLeaf(T, bodies, path)
    ELSE AggregateNode(
            aggregate(aggregate(aggregate(aggregate(T, bodies, Append(path, 0)),
                                          bodies, Append(path, 1)),
                                bodies, Append(path, 2)),
                      bodies, Append(path, 3)),
            path)

SeqMin(f, n) == CHOOSE x \in {f[k] : k \in 1..n} : \A k \in 1..n : x <= f[k]

SeqMax(f, n) == CHOOSE x \in {f[k] : k \in 1..n} : \A k \in 1..n : x >= f[k]

\* The root node: the bounding square of the positions
RootNode(minX, maxX, minY, maxY) ==
    Node(Vec(QDiv(minX + maxX, 2), QDiv(minY + maxY, 2)),
         IF Max(maxX - minX, maxY - minY) \div 2 <= 0 THEN TreeScale
         ELSE Max(maxX - minX, maxY - minY) \div 2)

\* aggregate_mass_com_iterative() once every body is in
Aggregated(r, bodies) ==
    IF r.status = "built" THEN [r EXCEPT !.T = aggregate(r.T, bodies, << >>)] ELSE r

\* SpatialPartition::build(bodies): [T, status, subdiv]; bodies are
\* [pos, mass, index] with pos on the tree's grid.
build(bodies) ==
    IF Len(bodies) = 0 THEN [T |-> << >>, status |-> "empty", subdiv |-> 0]
    ELSE Aggregated(
            InsertAll([T |-> (<< >> :> RootNode(
                                SeqMin([k \in 1..Len(bodies) |-> bodies[k].pos[1]], Len(bodies)),
                                SeqMax([k \in 1..Len(bodies) |-> bodies[k].pos[1]], Len(bodies)),
                                SeqMin([k \in 1..Len(bodies) |-> bodies[k].pos[2]], Len(bodies)),
                                SeqMax([k \in 1..Len(bodies) |-> bodies[k].pos[2]], Len(bodies)))),
                       status |-> "built", subdiv |-> 0], bodies, 1),
            bodies)

\* A variant of Accepts with the comparison turned round: near nodes are taken
AcceptsInverted(node, target, theta) ==
    LET dx == node.com[1] - target.pos[1]
        dy == node.com[2] - target.pos[2]
        dist2 == dx * dx + dy * dy
    IN  /\ dist2 > 0
        /\ 4 * node.halfSize * node.halfSize * theta.den * theta.den
             > theta.num * theta.num * dist2

\* The opening-angle test (2 halfSize) / dist < theta, theta = num/den >= 0.
\* dist = 0 gives +Inf or NaN on the left: the node is opened.
Accepts(node, target, theta) ==
    LET dx == node.com[1] - target.pos[1]
        dy == node.com[2] - target.pos[2]
        dist2 == dx * dx + dy * dy
    IN  /\ dist2 > 0
        /\ 4 * node.halfSize * node.halfSize * theta.den * theta.den
             < theta.num * theta.num * dist2

\* acc.x += static_cast<float>(ax); acc.y += static_cast<float>(ay);
AddTerm(f, term) == Vec(Add(f[1], ToFloat(term[1])), Add(f[2], ToFloat(term[2])))

NoForce == [acc |-> Zero2, leaves |-> {}, nodes |-> {}]

\* The term of one source (a leaf's body or an accepted node) on the target
SourceTerm(G, mass, pos, target, eps2) ==
    AddTerm(Zero2, PairAccel(G, mass, pos[1] - target.pos[1], pos[2] - target.pos[2], eps2))

\* The sum over the four children of an opened node
SumForces(c0, c1, c2, c3) ==
    [acc |-> VAdd(VAdd(c0.acc, c1.acc), VAdd(c2.acc, c3.acc)),
     leaves |-> c0.leaves \cup c1.leaves \cup c2.leaves \cup c3.leaves,
     nodes |-> c0.nodes \cup c1.nodes \cup c2.nodes \cup c3.nodes]

RECURSIVE compute_force(_, _, _, _, _, _, _)
\* SpatialPartition::compute_force from the node at path (the order in which
\* the explicit stack visits the nodes does not change the sum).  Returns the
\* acceleration added, the bodies whose leaf term was added and the internal
\* nodes taken as pseudo-bodies.
compute_force(T, bodies, path, target, theta, G, eps2) ==
    IF T[path].mass <= 0 THEN NoForce
    ELSE IF is_leaf(T, path)
    THEN IF T[path].body = 0 \/ bodies[T[path].body].index = target.index THEN NoForce
         ELSE [acc |-> SourceTerm(G, bodies[T[path].body].mass, bodies[T[path].body].pos,
                                  target, eps2),
               leaves |-> {T[path].body}, nodes |-> {}]
    ELSE IF Accepts(T[path], target, theta)
    THEN [acc |-> SourceTerm(G, T[path].mass, T[path].com, target, eps2),
          leaves |-> {}, nodes |-> {path}]
    ELSE SumForces(compute_force(T, bodies, Append(path, 0), target, theta, G, eps2),
                   compute_force(T, bodies, Append(path, 1), target, theta, G, eps2),
                   compute_force(T, bodies, Append(path, 2), target, theta, G, eps2),
                   compute_force(T, bodies, Append(path, 3), target, theta, G, eps2))

\* path is a prefix of q
IsPrefix(path, q) == Len(path) <= Len(q) /\ SubSeq(q, 1, Len(path)) = path

\* The bodies referenced by the leaves below the node at path
BodiesUnder(T, path) ==
    {T[q].body : q \in {q \in DOMAIN T : IsPrefix(path, q) /\ T[q].body # 0}}

----------------------------------------------------------------------------
(* Physics::compute_gravity *)

\* A variant of Receives in which pinned bodies accumulate as well
ReceivesPinnedToo(b) == TRUE

\* if (!pinned) acc += ...: a pinned body accumulates no acceleration
Receives(b) == ~b.pinned

\* A variant of Valid without the test of the mass
ValidAnyMass(b) == b.alive /\ VFinite(b.p) /\ VFinite(b.v)

\* The filter of the gathering lambda: finite position and velocity, finite
\* positive mass.
Valid(b) ==
    b.alive /\ VFinite(b.p) /\ VFinite(b.v) /\ IsFinite(b.m) /\ b.m > 0

RECURSIVE Gather(_, _)
\* The entities the lambda pushes, in w.each order, from entity e on
Gather(w, e) ==
    IF e > NumBodies THEN << >>
    ELSE IF Valid(w[e]) THEN <<e>> \o Gather(w, e + 1)
    ELSE Gather(w, e + 1)

\* A variant of ExactPair in which the reaction on j uses mass[j] instead of mass[i]
ExactPairSameMass(w, ids, acc, i, j, G, eps2) ==
    LET dx == (w[ids[j]].p[1] - w[ids[i]].p[1]) * TreeScale
        dy == (w[ids[j]].p[2] - w[ids[i]].p[2]) * TreeScale
        a_i == PairAccel(G, w[ids[j]].m, dx, dy, eps2)
        a_j == PairAccel(G, w[ids[j]].m, -dx, -dy, eps2)
    IN  [k \in 1..Len(ids) |->
            IF k = i /\ Receives(w[ids[i]])
            THEN [v |-> VAdd(acc[k].v, a_i), src |-> acc[k].src \cup {ids[j]}]
            ELSE IF k = j /\ Receives(w[ids[j]])
            THEN [v |-> VAdd(acc[k].v, a_j), src |-> acc[k].src \cup {ids[i]}]
            ELSE acc[k]]

\* One iteration of the exact pairwise loop body for the pair (i, j), i < j.
\* An accumulator holds the sum (v) and the entities whose term it holds (src).
ExactPair(w, ids, acc, i, j, G, eps2) ==
    LET dx == (w[ids[j]].p[1] - w[ids[i]].p[1]) * TreeScale
        dy == (w[ids[j]].p[2] - w[ids[i]].p[2]) * TreeScale
        a_i == PairAccel(G, w[ids[j]].m, dx, dy, eps2)
        a_j == PairAccel(G, w[ids[i]].m, -dx, -dy, eps2)
    IN  [k \in 1..Len(ids) |->
            IF k = i /\ Receives(w[ids[i]])
            THEN [v |-> VAdd(acc[k].v, a_i), src |-> acc[k].src \cup {ids[j]}]
            ELSE IF k = j /\ Receives(w[ids[j]])
            THEN [v |-> VAdd(acc[k].v, a_j), src |-> acc[k].src \cup {ids[i]}]
            ELSE acc[k]]

RECURSIVE ExactLoop(_, _, _, _, _, _, _)
\* for (i = 0; i < n; ++i) for (j = i + 1; j < n; ++j) ...
ExactLoop(w, ids, acc, i, j, G, eps2) ==
    IF i > Len(ids) THEN acc
    ELSE IF j > Len(ids) THEN ExactLoop(w, ids, acc, i + 1, i + 2, G, eps2)
    ELSE ExactLoop(w, ids, ExactPair(w, ids, acc, i, j, G, eps2), i, j + 1, G, eps2)

\* The SpatialPartition::Body list built from the gathered bodies
TreeBodies(w, ids) ==
    [k \in 1..Len(ids) |->
        [pos |-> Vec(ToTree(w[ids[k]].p[1]), ToTree(w[ids[k]].p[2])),
         mass |-> w[ids[k]].m, index |-> k]]

\* static_cast<size_t>(int): a negative value wraps round
ToSizeT(k) == IF k < 0 THEN k + 2 * (IntMax + 1) ELSE k

\* A variant of UsesTree that takes the tree from the threshold itself on
UsesTreeAtThreshold(n, cfg) == n >= ToSizeT(cfg.bh_threshold)

\* n > static_cast<size_t>(cfg.bh_threshold)
UsesTree(n, cfg) == n > ToSizeT(cfg.bh_threshold)

\* The index of entity e in the gathered list, 0 if it is not in it
IndexOf(ids, e) ==
    IF \E k \in 1..Len(ids) : ids[k] = e THEN CHOOSE k \in 1..Len(ids) : ids[k] = e ELSE 0

\* for (i = 0; i < n; ++i) accPtrs[i]->value = acc[i];
WriteAcc(w, ids, acc) ==
    [e \in Ents |-> IF IndexOf(ids, e) # 0 THEN [w[e] EXCEPT !.a = acc[IndexOf(ids, e)]]
                    ELSE w[e]]

NoSrc == [e \in Ents |-> {}]

\* The exact branch, ex being the accumulators after the pairwise loop
ExactResult(w, ids, ex) ==
    [w |-> WriteAcc(w, ids, [k \in 1..Len(ids) |-> ex[k].v]),
     route |-> "exact", status |-> "ok",
     srcs |-> [e \in Ents |-> IF IndexOf(ids, e) # 0 THEN ex[IndexOf(ids, e)].src ELSE {}],
     nodes |-> NoSrc, tree |-> << >>, ids |-> ids]

\* The entities whose mass is in the sum of a query: the leaf bodies and the
\* bodies below the nodes taken as pseudo-bodies
QuerySources(T, ids, f) ==
    {ids[b] : b \in f.leaves \cup UNION {BodiesUnder(T, q) : q \in f.nodes}}

\* The loop over the bodies of the tree branch: pinned ones are skipped;
\* fs[k] is the result of tree.compute_force(bodies[k], ...)
TreeResult(w, ids, tr, fs) ==
    [w |-> WriteAcc(w, ids, [k \in 1..Len(ids) |->
                               IF Receives(w[ids[k]]) THEN fs[k].acc ELSE Zero2]),
     route |-> "tree", status |-> "ok",
     srcs |-> [e \in Ents |->
                 IF IndexOf(ids, e) # 0 /\ Receives(w[e])
                 THEN QuerySources(tr.T, ids, fs[IndexOf(ids, e)]) ELSE {}],
     nodes |-> [e \in Ents |->
                  IF IndexOf(ids, e) # 0 /\ Receives(w[e])
                  THEN fs[IndexOf(ids, e)].nodes ELSE {}],
     tree |-> tr.T, ids |-> ids]

\* The tree branch, tr being the result of tree.build(bodies)
TreeBranch(w, cfg, ids, tb, tr) ==
    IF tr.status # "built"
    THEN [w |-> w, route |-> "tree", status |-> "hung", srcs |-> NoSrc,
          nodes |-> NoSrc, tree |-> tr.T, ids |-> ids]
    ELSE TreeResult(w, ids, tr,
            [k \in 1..Len(ids) |->
                IF Receives(w[ids[k]])
                THEN compute_force(tr.T, tb, << >>, tb[k], cfg.bh_theta, cfg.g,
                                   cfg.softening * cfg.softening)
                ELSE NoForce])

\* A variant of GravityOver that returns early for fewer than two bodies
GravityOverNeedsTwo(w, cfg, ids) ==
    IF Len(ids) < 2
    THEN [w |-> w, route |-> "none", status |-> "ok", srcs |-> NoSrc,
          nodes |-> NoSrc, tree |-> << >>, ids |-> ids]
    ELSE IF UsesTree(Len(ids), cfg)
    THEN TreeBranch(w, cfg, ids, TreeBodies(w, ids), build(TreeBodies(w, ids)))
    ELSE ExactResult(w, ids,
            ExactLoop(w, ids, [k \in 1..Len(ids) |-> [v |-> Zero2, src |-> {}]], 1, 2,
                      cfg.g, cfg.softening * cfg.softening))

\* compute_gravity over the gathered entities ids
GravityOver(w, cfg, ids) ==
    IF Len(ids) = 0
    THEN [w |-> w, route |-> "none", status |-> "ok", srcs |-> NoSrc,
          nodes |-> NoSrc, tree |-> << >>, ids |-> ids]
    ELSE IF UsesTree(Len(ids), cfg)
    THEN TreeBranch(w, cfg, ids, TreeBodies(w, ids), build(TreeBodies(w, ids)))
    ELSE ExactResult(w, ids,
            ExactLoop(w, ids, [k \in 1..Len(ids) |-> [v |-> Zero2, src |-> {}]], 1, 2,
                      cfg.g, cfg.softening * cfg.softening))

\* compute_gravity(w): the world afterwards, with what the evaluation did:
\*   route  "none" (n = 0), "exact" or "tree"
\*   status "ok", or "hung" when the tree build does not return
\*   srcs   for each entity, the entities whose mass entered its sum
\*   nodes  for each entity, the internal nodes taken as pseudo-bodies
compute_gravity(w, cfg) == GravityOver(w, cfg, Gather(w, 1))

----------------------------------------------------------------------------
(* Physics::compute_diagnostics *)

NoDiag ==
    [kinetic |-> 0, potential |-> 0, energy |-> 0, momentum |-> Zero2,
     com |-> Zero2, totalMass |-> 0, ok |-> TRUE]

RECURSIVE AllBodies(_, _)
\* data: every entity with Position, Velocity and Mass, in w.each order
AllBodies(w, e) ==
    IF e > NumBodies THEN << >>
    ELSE IF w[e].alive THEN <<e>> \o AllBodies(w, e + 1)
    ELSE AllBodies(w, e + 1)

RECURSIVE BodySums(_, _, _, _)
\* The first loop: the sums after each body, stopping at the first non-finite one
BodySums(w, data, i, acc) ==
    IF i > Len(data) THEN acc
    ELSE LET b == w[data[i]]
             v2 == Add(Mul(b.v[1], b.v[1]), Mul(b.v[2], b.v[2]))
             nx == [KE |-> Add(acc.KE, QDiv(Mul(b.m, v2), 2)),
                    Px |-> Add(acc.Px, Mul(b.m, b.v[1])),
                    Py |-> Add(acc.Py, Mul(b.m, b.v[2])),
                    Cx |-> Add(acc.Cx, Mul(b.m, b.p[1])),
                    Cy |-> Add(acc.Cy, Mul(b.m, b.p[2])),
                    M |-> Add(acc.M, b.m), ok |-> TRUE]
         IN  IF ~(IsFinite(nx.KE) /\ IsFinite(nx.Px) /\ IsFinite(nx.Py)
                  /\ IsFinite(nx.Cx) /\ IsFinite(nx.Cy) /\ IsFinite(nx.M))
             THEN [nx EXCEPT !.ok = FALSE]
             ELSE BodySums(w, data, i + 1, nx)

RECURSIVE PairSums(_, _, _, _, _, _, _)
\* The second loop: the potential energy after each pair
PairSums(w, data, i, j, G, eps2, PE) ==
    IF i > Len(data) THEN [PE |-> PE, ok |-> TRUE]
    ELSE IF j > Len(data) THEN PairSums(w, data, i + 1, i + 2, G, eps2, PE)
    ELSE LET dx == Sub(w[data[j]].p[1], w[data[i]].p[1])
             dy == Sub(w[data[j]].p[2], w[data[i]].p[2])
             r2 == Add(Add(Mul(dx, dx), Mul(dy, dy)), eps2)
             r == ISqrt(r2)
             nx == Add(PE, QDiv(Mul(Mul(-G, w[data[i]].m), w[data[j]].m), r))
         IN  IF ~IsFinite(nx) THEN [PE |-> nx, ok |-> FALSE]
             ELSE PairSums(w, data, i, j + 1, G, eps2, nx)

\* The Diagnostics written when every partial sum was finite
DiagOut(s1, s2) ==
    [kinetic |-> s1.KE, potential |-> s2.PE, energy |-> Add(s1.KE, s2.PE),
     momentum |-> Vec(s1.Px, s1.Py), totalMass |-> s1.M,
     com |-> IF s1.M > 0 THEN Vec(QDiv(s1.Cx, s1.M), QDiv(s1.Cy, s1.M)) ELSE Zero2,
     ok |-> TRUE]

\* out.ok = isfinite(...) of every field; if (!out.ok) cfg->paused = true
DiagFinal(out, paused) ==
    IF ~(IsFinite(out.kinetic) /\ IsFinite(out.potential) /\ IsFinite(out.energy)
         /\ VFinite(out.momentum) /\ IsFinite(out.totalMass) /\ VFinite(out.com))
    THEN [out |-> [out EXCEPT !.ok = FALSE], paused |-> TRUE]
    ELSE [out |-> out, paused |-> paused]

\* A variant of DiagPairs that tests the sums of the first loop only
DiagPairsFirstLoopOnly(w, data, G, eps2, paused, s1, s2) ==
    IF ~s1.ok THEN [out |-> [NoDiag EXCEPT !.ok = FALSE], paused |-> TRUE]
    ELSE [out |-> DiagOut(s1, s2), paused |-> paused]

\* A variant of DiagPairs that reports ok = false without touching the flag
DiagPairsNoPause(w, data, G, eps2, paused, s1, s2) ==
    IF ~s1.ok \/ ~s2.ok THEN [out |-> [NoDiag EXCEPT !.ok = FALSE], paused |-> paused]
    ELSE DiagFinal(DiagOut(s1, s2), paused)

\* After the first loop (s1): the early return, or the second loop
DiagPairs(w, data, G, eps2, paused, s1, s2) ==
    IF ~s1.ok \/ ~s2.ok THEN [out |-> [NoDiag EXCEPT !.ok = FALSE], paused |-> TRUE]
    ELSE DiagFinal(DiagOut(s1, s2), paused)

DiagOver(w, data, G, eps2, paused) ==
    IF Len(data) = 0 THEN [out |-> NoDiag, paused |-> paused]
    ELSE DiagPairs(w, data, G, eps2, paused,
            BodySums(w, data, 1, [KE |-> 0, Px |-> 0, Py |-> 0, Cx |-> 0, Cy |-> 0,
                                  M |-> 0, ok |-> TRUE]),
            PairSums(w, data, 1, 2, G, eps2, 0))

\* compute_diagnostics(w, G, eps2, out): [out, paused], paused being what the
\* call leaves in cfg->paused
compute_diagnostics(w, G, eps2, paused) == DiagOver(w, AllBodies(w, 1), G, eps2, paused)

----------------------------------------------------------------------------
(* Physics::integrate *)

\* The floor of the substep cap, std::max(1e-6f, cfg.max_substep), in ticks
MinSubstep == 1

CeilDiv(a, b) == (a + b - 1) \div b

\* What static_cast<int> yields for a float beyond the range of int (undefined
\* behaviour): the "integer indefinite" value INT_MIN of the x86 conversion,
\* or the saturated INT_MAX of other targets
CastOutcomes == {"indefinite", "saturate"}

\* static_cast<int>(x) for an integral float x >= 0
ToInt(x, castUB) ==
    IF x <= IntMax THEN x ELSE IF castUB = "indefinite" THEN IntMin ELSE IntMax

\* nSteps = max(1, min(int(ceil(dt / cap)), max(1, max_substeps_per_frame)))
NSteps(dt, cfg, castUB) ==
    LET cap == Max(MinSubstep, cfg.max_substep)
    IN  Max(1, Min(ToInt(CeilDiv(dt, cap), castUB), Max(1, cfg.max_substeps_per_frame)))

\* The speed cap: if (maxSpeed > 0 && |v| > maxSpeed) v *= maxSpeed / |v|.
\* A NaN length compares false, so a non-finite velocity is left as it is.
CapComponent(c, v2, maxSpeed) ==
    LET mag == ISqrt((c * c * maxSpeed * maxSpeed) \div v2)
    IN  IF c < 0 THEN -mag ELSE mag

\* A variant of CapSpeed that clamps each component to the cap on its own
CapSpeedPerComponent(v, maxSpeed) ==
    IF maxSpeed > 0 /\ VFinite(v)
    THEN Vec(Max(-maxSpeed, Min(maxSpeed, v[1])), Max(-maxSpeed, Min(maxSpeed, v[2])))
    ELSE v

CapSpeed(v, maxSpeed) ==
    IF maxSpeed > 0 /\ VFinite(v)
    THEN LET v2 == v[1] * v[1] + v[2] * v[2]
         IN  IF v2 > maxSpeed * maxSpeed
             THEN Vec(CapComponent(v[1], v2, maxSpeed), CapComponent(v[2], v2, maxSpeed))
             ELSE v
    ELSE v

\* A variant of EulerBody that advances the position with the old velocity
EulerBodyPositionFirst(b, dtSub, maxSpeed) ==
    IF ~b.alive \/ b.pinned THEN b
    ELSE [b EXCEPT !.v = CapSpeed(Vec(Add(b.v[1], Mul(b.a[1], dtSub)),
                                      Add(b.v[2], Mul(b.a[2], dtSub))), maxSpeed),
                   !.p = Vec(Add(b.p[1], Mul(b.v[1], dtSub)),
                             Add(b.p[2], Mul(b.v[2], dtSub)))]

\* Semi-Implicit Euler, the body lambda: v += a dt; cap; p += v dt
EulerBody(b, dtSub, maxSpeed) ==
    IF ~b.alive \/ b.pinned THEN b
    ELSE LET v1 == CapSpeed(Vec(Add(b.v[1], Mul(b.a[1], dtSub)),
                                Add(b.v[2], Mul(b.a[2], dtSub))), maxSpeed)
         IN  [b EXCEPT !.v = v1,
                       !.p = Vec(Add(b.p[1], Mul(v1[1], dtSub)),
                                 Add(b.p[2], Mul(v1[2], dtSub)))]

\* Velocity Verlet, first lambda: p += v dt + a dt^2 / 2; a0 = a
VerletPosBody(b, dtSub) ==
    IF ~b.alive \/ b.pinned THEN b
    ELSE [b EXCEPT
            !.p = Vec(Add(b.p[1], Add(Mul(b.v[1], dtSub),
                                      QDiv(Mul(b.a[1], dtSub * dtSub), 2))),
                      Add(b.p[2], Add(Mul(b.v[2], dtSub),
                                      QDiv(Mul(b.a[2], dtSub * dtSub), 2)))),
            !.a0 = b.a]

\* Velocity Verlet, second lambda: v += (a0 + a) dt / 2; cap
VerletVelBody(b, dtSub, maxSpeed) ==
    IF ~b.alive \/ b.pinned THEN b
    ELSE [b EXCEPT
            !.v = CapSpeed(Vec(Add(b.v[1], QDiv(Mul(Add(b.a0[1], b.a[1]), dtSub), 2)),
                               Add(b.v[2], QDiv(Mul(Add(b.a0[2], b.a[2]), dtSub), 2))),
                           maxSpeed)]

\* The end of an Euler substep: "if (step + 1 < nSteps) compute_gravity(w)",
\* g being the result of that call
EulerRefresh(r, g) ==
    [r EXCEPT !.w = g.w, !.status = g.status, !.evals = @ + 1,
              !.events = Append(@, "force")]

\* A variant of EulerStep that resolves collisions again before the refresh
EulerStepResolving(r, cfg, last) ==
    IF last
    THEN [r EXCEPT !.w = [e \in Ents |-> EulerBody(r.w[e], r.dtSub, cfg.max_speed)],
                   !.events = Append(@, "velpos")]
    ELSE EulerRefresh(
            [r EXCEPT !.events = Append(@, "velpos")],
            compute_gravity(
                resolve([e \in Ents |-> EulerBody(r.w[e], r.dtSub, cfg.max_speed)],
                        "noop").w, cfg))

EulerStep(r, cfg, last) ==
    IF last
    THEN [r EXCEPT !.w = [e \in Ents |-> EulerBody(r.w[e], r.dtSub, cfg.max_speed)],
                   !.events = Append(@, "velpos")]
    ELSE EulerRefresh(
            [r EXCEPT !.events = Append(@, "velpos")],
            compute_gravity([e \in Ents |-> EulerBody(r.w[e], r.dtSub, cfg.max_speed)], cfg))

RECURSIVE EulerSteps(_, _, _)
\* for (step = 0; step < nSteps; ++step) { each(...); if (step + 1 < nSteps) compute_gravity(w); }
EulerSteps(r, cfg, step) ==
    IF step >= r.nSteps \/ r.status # "ok" THEN r
    ELSE EulerSteps(EulerStep(r, cfg, ~(step + 1 < r.nSteps)), cfg, step + 1)

\* A Verlet substep after its first lambda, g being the result of
\* compute_gravity at the new positions
VerletFinish(r, g, cfg) ==
    IF g.status # "ok"
    THEN [r EXCEPT !.w = g.w, !.status = g.status, !.evals = @ + 1,
                   !.events = @ \o <<"pos", "force">>]
    ELSE [r EXCEPT !.w = [e \in Ents |-> VerletVelBody(g.w[e], r.dtSub, cfg.max_speed)],
                   !.evals = @ + 1,
                   !.events = @ \o <<"pos", "force", "vel">>]

\* A variant of VerletStep that evaluates the forces before the positions move
VerletStepForceFirst(r, cfg) ==
    VerletFinish(r, [compute_gravity(r.w, cfg) EXCEPT
                        !.w = [e \in Ents |-> VerletPosBody(@[e], r.dtSub)]],
                 cfg)

VerletStep(r, cfg) ==
    VerletFinish(r, compute_gravity([e \in Ents |-> VerletPosBody(r.w[e], r.dtSub)], cfg),
                 cfg)

RECURSIVE VerletSteps(_, _, _)
\* for (step = 0; step < nSteps; ++step) { each(pos); compute_gravity(w); each(vel); }
VerletSteps(r, cfg, step) ==
    IF step >= r.nSteps \/ r.status # "ok" THEN r
    ELSE VerletSteps(VerletStep(r, cfg), cfg, step + 1)

\* if (integrator == 0) Semi-Implicit Euler else Velocity Verlet
RunSteps(r, cfg) ==
    IF cfg.integrator = 0 THEN EulerSteps(r, cfg, 0) ELSE VerletSteps(r, cfg, 0)

\* integrate(w, dt): [w, status, evals, events, nSteps, dtSub, dt]
integrate(w, cfg, dt, castUB) ==
    RunSteps([w |-> w, status |-> "ok", evals |-> 0, events |-> << >>,
              nSteps |-> NSteps(dt, cfg, castUB),
              dtSub |-> QDiv(dt, NSteps(dt, cfg, castUB)), dt |-> dt],
             cfg)

\* update_trails: one point per entity with a Trail, the oldest erased
\* when the trail is longer than trail_max; the model keeps the lengths.
update_trails(w, tr, cfg) ==
    IF ~cfg.draw_trails THEN tr
    ELSE [e \in Ents |->
            IF ~w[e].alive THEN 0
            ELSE IF tr[e] + 1 > Max(0, cfg.trail_max) THEN tr[e] ELSE tr[e] + 1]

----------------------------------------------------------------------------
(* The state: the flecs world (bodies, the Config and Diagnostics          *)
(* singletons, the trails), the position of the frame in the pipeline of   *)
(* register_systems, and a record of what the last system did.             *)

VARIABLES
    bodies,     \* entity -> components
    cfg,        \* the Config singleton
    diag,       \* the Diagnostics singleton
    trails,     \* entity -> number of trail points
    pc,         \* the system that runs next, or "crashed" / "hung" / "done"
    frame,      \* frames completed
    prev,       \* bodies before the last system ran
    lastOp,     \* the last system that ran: its name, and whether it was skipped
    log,        \* the overlapping pairs met by the last Collision::resolve
    grav,       \* what the last compute_gravity did
    integ       \* what the last integrate did

vars == <<bodies, cfg, diag, trails, pc, frame, prev, lastOp, log, grav, integ>>

NoGrav == [w |-> << >>, route |-> "none", status |-> "ok", srcs |-> NoSrc,
           nodes |-> NoSrc, tree |-> << >>, ids |-> << >>]

NoInteg == [w |-> << >>, status |-> "ok", evals |-> 0, events |-> << >>, nSteps |-> 0,
            dtSub |-> 0, dt |-> 0]

----------------------------------------------------------------------------
(* Initial worlds and configurations *)

\* The kinds of body a world is seeded with: mass, pinned flag, velocity,
\* stored acceleration, and whether the position is non-finite.
Kind(m, pinned, v, a, badPos) ==
    [m |-> m, pinned |-> pinned, v |-> v, a |-> a, badPos |-> badPos, absent |-> FALSE]

Light == Kind(1, FALSE, <<2, 0>>, Zero2, FALSE)

Heavy == Kind(3, FALSE, <<0, -2>>, Zero2, FALSE)

PinnedLight == Kind(1, TRUE, Zero2, Zero2, FALSE)

PinnedHeavy == Kind(3, TRUE, <<1, 1>>, Zero2, FALSE)

Massless == Kind(0, FALSE, <<2, 0>>, <<1, 0>>, FALSE)

NanMass == Kind(NonFinite, FALSE, <<2, 0>>, <<1, 0>>, FALSE)

NanVel == Kind(1, FALSE, <<NonFinite, 0>>, Zero2, FALSE)

NanPos == Kind(1, FALSE, <<2, 0>>, <<0, 1>>, TRUE)

Absent == [Kind(0, FALSE, Zero2, Zero2, FALSE) EXCEPT !.absent = TRUE]

\* A valid body faster than the speed caps of the model, moving diagonally
Fast == Kind(1, FALSE, <<6, -8>>, Zero2, FALSE)

\* A valid body that carries an acceleration from an earlier frame
Pushed == Kind(1, FALSE, <<2, 0>>, <<1, 0>>, FALSE)

BodyOf(k, p) ==
    IF k.absent THEN Dead
    ELSE [MkBody(IF k.badPos THEN <<NonFinite, p[2]>> ELSE p, k.v, k.m, k.pinned)
            EXCEPT !.a = k.a]

Worlds(kinds, points) ==
    {[e \in Ents |-> BodyOf(kf[e], pf[e])] : kf \in [Ents -> kinds], pf \in [Ents -> points]}

BaseCfg ==
    [g |-> 16, softening |-> 1, max_speed |-> 0, bh_threshold |-> 100,
     bh_theta |-> [num |-> 1, den |-> 2], paused |-> FALSE,
     use_fixed_dt |-> TRUE, fixed_dt |-> 1, time_scale |-> 1, integrator |-> 1,
     max_substep |-> 1000, max_substeps_per_frame |-> 200,
     draw_trails |-> TRUE, trail_max |-> 2]

InitRest ==
    /\ diag = NoDiag
    /\ trails = [e \in Ents |-> 0]
    /\ frame = 0
    /\ prev = bodies
    /\ lastOp = [name |-> "init", skipped |-> FALSE]
    /\ log = << >>
    /\ grav = NoGrav
    /\ integ = NoInteg

----------------------------------------------------------------------------
(* The pipeline of Physics::register_systems: four systems per frame *)

Skip(name, next) ==
    /\ pc' = next
    /\ prev' = bodies
    /\ lastOp' = [name |-> name, skipped |-> TRUE]
    /\ UNCHANGED <<bodies, cfg, diag, trails, frame, log, grav, integ>>

\* System 1: Collision::resolve, then compute_diagnostics into the singleton
CollisionSystem ==
    /\ pc = "collision"
    /\ frame < MaxFrames
    /\ IF cfg.paused THEN Skip("collision", "gravity")
       ELSE \E deadWrite \in {"crash", "noop"} :
            \E st \in {resolve(bodies, deadWrite)} :
            \E d \in {compute_diagnostics(st.w, cfg.g, cfg.softening * cfg.softening,
                                          cfg.paused)} :
              /\ prev' = bodies
              /\ lastOp' = [name |-> "collision", skipped |-> FALSE]
              /\ log' = st.log
              /\ bodies' = st.w
              /\ IF st.status = "crashed"
                 THEN pc' = "crashed" /\ UNCHANGED <<cfg, diag>>
                 ELSE /\ pc' = "gravity"
                      /\ diag' = d.out
                      /\ cfg' = [cfg EXCEPT !.paused = d.paused]
              /\ UNCHANGED <<trails, frame, grav, integ>>

\* System 2: compute_gravity
GravitySystem ==
    /\ pc = "gravity"
    /\ IF cfg.paused THEN Skip("gravity", "integrate")
       ELSE \E g \in {compute_gravity(bodies, cfg)} :
              /\ prev' = bodies
              /\ lastOp' = [name |-> "gravity", skipped |-> FALSE]
              /\ bodies' = g.w
              /\ grav' = [g EXCEPT !.w = << >>]
              /\ pc' = IF g.status = "ok" THEN "integrate" ELSE "hung"
              /\ UNCHANGED <<cfg, diag, trails, frame, log, integ>>

\* The frame time it.delta_time() when the fixed step is off
DeltaTimes == {1, 2}

\* System 3: integrate over dtEff = baseDt * max(0, time_scale)
IntegrateSystem ==
    /\ pc = "integrate"
    /\ IF cfg.paused THEN Skip("integrate", "trails")
       ELSE \E delta \in (IF cfg.use_fixed_dt THEN {cfg.fixed_dt} ELSE DeltaTimes) :
            \E castUB \in CastOutcomes :
            \E r \in {integrate(bodies, cfg, delta * Max(0, cfg.time_scale), castUB)} :
              /\ prev' = bodies
              /\ lastOp' = [name |-> "integrate", skipped |-> FALSE]
              /\ bodies' = r.w
              /\ integ' = [r EXCEPT !.w = << >>]
              /\ pc' = IF r.status = "ok" THEN "trails" ELSE "hung"
              /\ UNCHANGED <<cfg, diag, trails, frame, log, grav>>

\* System 4: update_trails; the frame ends
TrailsSystem ==
    /\ pc = "trails"
    /\ prev' = bodies
    /\ lastOp' = [name |-> "trails", skipped |-> cfg.paused]
    /\ trails' = IF cfg.paused THEN trails ELSE update_trails(bodies, trails, cfg)
    /\ pc' = "collision"
    /\ frame' = frame + 1
    /\ UNCHANGED <<bodies, cfg, diag, log, grav, integ>>

\* The "Paused" checkbox of the control panel, between frames
TogglePaused ==
    /\ pc = "collision"
    /\ frame < MaxFrames
    /\ lastOp.name # "ui"
    /\ cfg' = [cfg EXCEPT !.paused = ~cfg.paused]
    /\ prev' = bodies
    /\ lastOp' = [name |-> "ui", skipped |-> FALSE]
    /\ UNCHANGED <<bodies, diag, trails, pc, frame, log, grav, integ>>

SpecKinds == {Light, Heavy, PinnedHeavy, Massless}

SpecPoints == {<<0, 0>>, <<3, 0>>, <<12, 0>>}

SpecCfgs ==
    {[BaseCfg EXCEPT !.integrator = i, !.bh_threshold = t, !.max_substep = s,
                        !.fixed_dt = 2]
        : i \in {0, 1}, t \in {1, 100}, s \in {1, 1000}}

Init ==
    /\ bodies \in Worlds(SpecKinds, SpecPoints)
    /\ cfg \in SpecCfgs
    /\ pc = "collision"
    /\ InitRest

Next ==
    \/ CollisionSystem
    \/ GravitySystem
    \/ IntegrateSystem
    \/ TrailsSystem
    \/ TogglePaused

Spec == Init /\ [][Next]_vars

----------------------------------------------------------------------------
(* One system on its own: Collision::resolve over every seeded world *)

CollisionKinds == {Light, Heavy, PinnedLight, PinnedHeavy, Massless, NanVel}

InitCollision ==
    /\ bodies \in Worlds(CollisionKinds, SpecPoints)
    /\ cfg = BaseCfg
    /\ pc = "collision"
    /\ InitRest

SpecCollision == InitCollision /\ [][CollisionSystem]_vars

----------------------------------------------------------------------------
(* One system on its own: compute_gravity over every seeded world, on the  *)
(* exact path and on the Barnes-Hut path, for several opening angles       *)

GravityKinds == {Light, PinnedHeavy, Massless, NanMass, NanVel, NanPos}

GravityPoints == {<<0, 0>>, <<3, 0>>, <<12, 4>>}

Thetas == {[num |-> 0, den |-> 1], [num |-> 1, den |-> 2], [num |-> 2, den |-> 1]}

\* The exact path (the default threshold), the tree for every opening angle,
\* and a threshold between the body counts of the model
GravityCfgs ==
    {BaseCfg, [BaseCfg EXCEPT !.bh_threshold = NumBodies - 1]}
        \cup {[BaseCfg EXCEPT !.bh_threshold = 1, !.bh_theta = th] : th \in Thetas}

InitGravity ==
    /\ bodies \in Worlds(GravityKinds, GravityPoints)
    /\ cfg \in GravityCfgs
    /\ pc = "gravity"
    /\ InitRest

SpecGravity == InitGravity /\ [][GravitySystem]_vars

----------------------------------------------------------------------------
(* A force evaluation followed by the integration of one frame, over valid *)
(* unpinned bodies on the exact path under Velocity Verlet, without speed  *)
(* cap: the isolated system of the energy / momentum test                  *)

MomentumKinds == {Light, Heavy, Absent}

MomentumCfgs ==
    {[BaseCfg EXCEPT !.g = 48, !.fixed_dt = dt, !.max_substep = s]
        : dt \in {1, 2}, s \in {1, 1000}}

InitMomentum ==
    /\ bodies \in Worlds(MomentumKinds, GravityPoints)
    /\ cfg \in MomentumCfgs
    /\ pc = "gravity"
    /\ InitRest

NextMomentum ==
    \/ GravitySystem
    \/ IntegrateSystem

SpecMomentum == InitMomentum /\ [][NextMomentum]_vars

----------------------------------------------------------------------------
(* One system on its own: integrate over one body, for every split of the  *)
(* effective timestep                                                      *)

SubstepCfgs ==
    {[BaseCfg EXCEPT !.integrator = i, !.fixed_dt = dt, !.max_substep = s,
                        !.max_substeps_per_frame = k]
        : i \in {0, 1}, dt \in 0..10 \cup {300}, s \in {1, 2, 3, 4, 1000},
          k \in {1, 2, 3, 20}}

InitSubsteps ==
    /\ bodies \in {[e \in Ents |-> IF e = 1 THEN BodyOf(Light, p) ELSE Dead]
                      : p \in SpecPoints}
    /\ cfg \in SubstepCfgs
    /\ pc = "integrate"
    /\ InitRest

SpecSubsteps == InitSubsteps /\ [][IntegrateSystem]_vars

----------------------------------------------------------------------------
(* The collision system over worlds that hold non-finite components, with  *)
(* and without softening: what compute_diagnostics reports                 *)

DiagnosticsKinds == {Light, PinnedHeavy, Massless, NanMass, NanVel, NanPos, Absent}

DiagnosticsPoints == {<<0, 0>>, <<12, 0>>}

DiagnosticsCfgs == {[BaseCfg EXCEPT !.softening = eps] : eps \in {0, 1}}

InitDiagnostics ==
    /\ bodies \in Worlds(DiagnosticsKinds, DiagnosticsPoints)
    /\ cfg \in DiagnosticsCfgs
    /\ pc = "collision"
    /\ InitRest

SpecDiagnostics == InitDiagnostics /\ [][CollisionSystem]_vars

----------------------------------------------------------------------------
(* The pipeline over the empty world and over worlds of a single body, on  *)
(* the exact path and on the Barnes-Hut path                               *)

FewKinds == {Light, PinnedHeavy, Pushed, Absent}

FewCfgs ==
    {[BaseCfg EXCEPT !.integrator = i, !.bh_threshold = t, !.max_substep = s,
                        !.fixed_dt = 2]
        : i \in {0, 1}, t \in {0, 100}, s \in {1, 1000}}

InitFew ==
    /\ bodies \in {w \in Worlds(FewKinds, SpecPoints) :
                      Cardinality({e \in Ents : w[e].alive}) <= 1}
    /\ cfg \in FewCfgs
    /\ pc = "collision"
    /\ InitRest

SpecFew == InitFew /\ [][Next]_vars

----------------------------------------------------------------------------
(* Collision::resolve over bodies that overlap, just touch (the distance   *)
(* is the sum of the radii, 2 + 2) or are apart                            *)

TouchingKinds == {Light, Heavy, PinnedLight}

TouchingPoints == {<<0, 0>>, <<4, 0>>, <<5, 0>>, <<12, 0>>}

InitTouching ==
    /\ bodies \in Worlds(TouchingKinds, TouchingPoints)
    /\ cfg = BaseCfg
    /\ pc = "collision"
    /\ InitRest

SpecTouching == InitTouching /\ [][CollisionSystem]_vars

----------------------------------------------------------------------------
(* A force evaluation followed by the integration of one frame, with and   *)
(* without a speed cap, under both integrators                             *)

CapKinds == {Light, Fast, PinnedHeavy}

CapCfgs ==
    {[BaseCfg EXCEPT !.g = 48, !.max_speed = c, !.integrator = i, !.max_substep = s,
                        !.fixed_dt = 2]
        : c \in {0, 5}, i \in {0, 1}, s \in {1, 1000}}

InitCap ==
    /\ bodies \in Worlds(CapKinds, GravityPoints)
    /\ cfg \in CapCfgs
    /\ pc = "gravity"
    /\ InitRest

SpecCap == InitCap /\ [][NextMomentum]_vars

----------------------------------------------------------------------------
(* The whole pipeline over worlds in which a moving body reaches a pinned  *)
(* one during the frame: they are apart when the frame starts and overlap  *)
(* after the first substep                                                 *)

OrderKinds == {Light, PinnedLight, Absent}

OrderPoints == {<<0, 0>>, <<6, 0>>}

OrderCfgs ==
    {[BaseCfg EXCEPT !.integrator = i, !.max_substep = s, !.fixed_dt = 2]
        : i \in {0, 1}, s \in {1, 1000}}

InitOrder ==
    /\ bodies \in Worlds(OrderKinds, OrderPoints)
    /\ cfg \in OrderCfgs
    /\ pc = "collision"
    /\ InitRest

SpecOrder == InitOrder /\ [][Next]_vars

----------------------------------------------------------------------------
(* The force evaluation through the quadtree for every body count, over    *)
(* worlds with bodies on the centre lines of the nodes                     *)

QuadrantKinds == {Light, PinnedHeavy, Absent}

QuadrantPoints == {<<0, 0>>, <<6, 0>>, <<12, 0>>, <<3, 4>>}

QuadrantCfgs == {[BaseCfg EXCEPT !.bh_threshold = 0]}

InitQuadrant ==
    /\ bodies \in Worlds(QuadrantKinds, QuadrantPoints)
    /\ cfg \in QuadrantCfgs
    /\ pc = "gravity"
    /\ InitRest

SpecQuadrant == InitQuadrant /\ [][GravitySystem]_vars

----------------------------------------------------------------------------
(* Collision::resolve over worlds in which a merge enlarges a body towards *)
(* a neighbour that is near but does not overlap before the pass           *)

PassKinds == {Light, Heavy}

PassPoints == {<<0, 0>>, <<3, 3>>, <<12, 0>>}

InitPass ==
    /\ bodies \in Worlds(PassKinds, PassPoints)
    /\ cfg = BaseCfg
    /\ pc = "collision"
    /\ InitRest

SpecPass == InitPass /\ [][CollisionSystem]_vars

----------------------------------------------------------------------------
(* The whole pipeline over worlds that hold a body with a non-finite       *)
(* velocity next to moving bodies                                          *)

PauseKinds == {Light, NanVel, Absent}

PausePoints == {<<0, 0>>, <<12, 0>>}

PauseCfgs == {[BaseCfg EXCEPT !.integrator = i, !.fixed_dt = 2] : i \in {0, 1}}

InitPause ==
    /\ bodies \in Worlds(PauseKinds, PausePoints)
    /\ cfg \in PauseCfgs
    /\ pc = "collision"
    /\ InitRest

SpecPause == InitPause /\ [][Next]_vars

----------------------------------------------------------------------------
(* Properties *)

\* C1: a body whose pinned flag is set has the same position and velocity
\* after every unpaused system (collision resolution, force evaluation,
\* integration) as before it, a merge with an unpinned body included.
C1_PinnedInvariance ==
    ~lastOp.skipped =>
        \A e \in Ents :
            prev[e].alive /\ prev[e].pinned /\ bodies[e].alive
                => bodies[e].p = prev[e].p /\ bodies[e].v = prev[e].v

\* C2: when a pass of Collision::resolve meets exactly one overlapping pair
\* and both bodies are unpinned, with masses m1, m2 and finite velocities v1,
\* v2, then afterwards exactly one of the two entities is alive, with mass
\* m1 + m2, velocity (m1 v1 + m2 v2) / (m1 + m2) and the mass-weighted mean
\* position, and the other entity is destroyed.
C2_MergeOfUnpinned ==
    (/\ lastOp.name = "collision" /\ ~lastOp.skipped
     /\ Len(log) = 1
     /\ ~prev[log[1].a].pinned /\ ~prev[log[1].b].pinned
     /\ VFinite(prev[log[1].a].v) /\ VFinite(prev[log[1].b].v))
    => LET b1 == prev[log[1].a]
           b2 == prev[log[1].b]
           M == b1.m + b2.m
           s == IF bodies[log[1].a].alive THEN log[1].a ELSE log[1].b
           d == IF bodies[log[1].a].alive THEN log[1].b ELSE log[1].a
       IN  /\ bodies[log[1].a].alive # bodies[log[1].b].alive
           /\ bodies[s].m = M
           /\ bodies[s].v = Vec(QDiv(b1.m * b1.v[1] + b2.m * b2.v[1], M),
                                QDiv(b1.m * b1.v[2] + b2.m * b2.v[2], M))
           /\ bodies[s].p = Vec(QDiv(b1.m * b1.p[1] + b2.m * b2.p[1], M),
                                QDiv(b1.m * b1.p[2] + b2.m * b2.p[2], M))
           /\ bodies[d] = Dead

\* A pass that met one pair of unpinned bodies of different mass and velocity
C2_Witness ==
    /\ lastOp.name = "collision" /\ ~lastOp.skipped
    /\ Len(log) = 1
    /\ ~prev[log[1].a].pinned /\ ~prev[log[1].b].pinned
    /\ prev[log[1].a].m # prev[log[1].b].m
    /\ prev[log[1].a].v # prev[log[1].b].v
    /\ prev[log[1].a].p # prev[log[1].b].p
    /\ VFinite(prev[log[1].a].v) /\ VFinite(prev[log[1].b].v)
    /\ \E e \in {log[1].a, log[1].b} :
          bodies[e].alive /\ bodies[e].m = prev[log[1].a].m + prev[log[1].b].m

\* C3: when an overlapping pair has one pinned and one unpinned body, the
\* pinned entity survives and the unpinned one is destroyed, in either order
\* and for every ratio of the masses; no pinned entity is destroyed by
\* collision resolution.
C3_PinnedSurvives ==
    (lastOp.name = "collision" /\ ~lastOp.skipped) =>
        /\ \A k \in 1..Len(log) :
              (/\ log[k].kind = "merge" /\ log[k].sLive /\ log[k].dLive
               /\ log[k].sPinned # log[k].dPinned)
              => log[k].sPinned
        /\ \A e \in Ents : prev[e].alive /\ prev[e].pinned => bodies[e].alive

\* C4: when both bodies of an overlapping pair are unpinned and their masses
\* differ, the entity of strictly larger mass survives and the lighter one is
\* destroyed, whichever of the two comes first in the iteration.
C4_HeavierSurvives ==
    (lastOp.name = "collision" /\ ~lastOp.skipped) =>
        \A k \in 1..Len(log) :
            (/\ log[k].sLive /\ log[k].dLive
             /\ ~log[k].sPinned /\ ~log[k].dPinned
             /\ log[k].sm # log[k].dm)
            => /\ log[k].kind = "merge"
               /\ log[k].sm > log[k].dm
               /\ ~bodies[log[k].d].alive
               /\ k = 1 => prev[log[k].s].m > prev[log[k].d].m
               /\ Len(log) = 1 => bodies[log[k].s].alive

\* A pass in which the second body of the pair, the heavier, survived
C4_Witness ==
    /\ lastOp.name = "collision" /\ ~lastOp.skipped
    /\ Len(log) = 1
    /\ ~log[1].sPinned /\ ~log[1].dPinned
    /\ log[1].s = log[1].b
    /\ prev[log[1].b].m > prev[log[1].a].m
    /\ bodies[log[1].b].alive /\ ~bodies[log[1].a].alive

\* C5: when both bodies of an overlapping pair are pinned, collision
\* resolution destroys neither and leaves the mass, position, velocity, radius
\* and pinned flag of both as they were (unless another pair of the same pass
\* merges one of them with an unpinned body).
C5_BothPinnedUntouched ==
    (lastOp.name = "collision" /\ ~lastOp.skipped) =>
        \A k \in 1..Len(log) :
            (log[k].sPinned /\ log[k].dPinned) =>
                /\ log[k].kind = "bothPinned"
                /\ \A e \in {log[k].a, log[k].b} :
                      (\A j \in 1..Len(log) :
                          log[j].kind = "bothPinned" \/ e \notin {log[j].s, log[j].d})
                      => bodies[e] = prev[e] /\ bodies[e].alive

\* A pass that met a pair of pinned bodies at different places and nothing else
C5_Witness ==
    /\ lastOp.name = "collision" /\ ~lastOp.skipped
    /\ Len(log) = 1
    /\ log[1].kind = "bothPinned"
    /\ prev[log[1].a].pinned /\ prev[log[1].b].pinned
    /\ prev[log[1].a].p # prev[log[1].b].p
    /\ bodies = prev

\* C6: a body whose mass is non-positive or non-finite, or whose position or
\* velocity is non-finite, is not deleted and keeps its position and velocity
\* over the integration of a frame, under either integrator and whatever
\* acceleration it carries.
C6_InvalidUntouched ==
    (lastOp.name = "integrate" /\ ~lastOp.skipped) =>
        \A e \in Ents :
            (/\ prev[e].alive
             /\ ~(VFinite(prev[e].p) /\ VFinite(prev[e].v) /\ IsFinite(prev[e].m)
                  /\ prev[e].m > 0))
            => /\ bodies[e].alive
               /\ bodies[e].p = prev[e].p
               /\ bodies[e].v = prev[e].v

\* C7: the acceleration compute_gravity writes to each valid body is the one
\* computed over the valid bodies alone, and the acceleration of an invalid
\* body is not written.
C7_InvalidExcluded ==
    (lastOp.name = "gravity" /\ ~lastOp.skipped /\ grav.status = "ok") =>
        LET ok(b) == /\ b.alive /\ VFinite(b.p) /\ VFinite(b.v)
                     /\ IsFinite(b.m) /\ b.m > 0
            alone == compute_gravity([e \in Ents |-> IF ok(prev[e]) THEN prev[e] ELSE Dead],
                                     cfg)
        IN  \A e \in Ents :
                IF ok(prev[e]) THEN bodies[e].a = alone.w[e].a
                ELSE bodies[e] = prev[e]

\* A force pass over two valid bodies that attract each other and an invalid
\* body that carries an acceleration from before
C7_Witness ==
    /\ lastOp.name = "gravity" /\ ~lastOp.skipped /\ grav.status = "ok"
    /\ Len(grav.ids) = 2
    /\ \A k \in 1..2 : bodies[grav.ids[k]].a # Zero2
    /\ \E e \in Ents :
          /\ prev[e].alive /\ IsFinite(prev[e].m) /\ prev[e].m <= 0
          /\ prev[e].a # Zero2 /\ bodies[e] = prev[e]
    /\ grav.route = "tree"

\* C8: after a force evaluation, on the exact path and on the Barnes-Hut path,
\* the acceleration of every valid pinned body is zero, and the sum of every
\* valid unpinned body holds the term of every other valid body, pinned ones
\* included.
C8_PinnedExertNotReceive ==
    (lastOp.name = "gravity" /\ ~lastOp.skipped /\ grav.status = "ok") =>
        LET ok(b) == /\ b.alive /\ VFinite(b.p) /\ VFinite(b.v)
                     /\ IsFinite(b.m) /\ b.m > 0
            valid == {e \in Ents : ok(prev[e])}
        IN  /\ \A e \in valid :
                  IF prev[e].pinned THEN bodies[e].a = Zero2
                  ELSE valid \ {e} \subseteq grav.srcs[e]
            /\ \A e \in valid : \A f \in valid :
                  (valid = {e, f} /\ e # f /\ ~prev[e].pinned /\ grav.route = "exact")
                  => bodies[e].a =
                        PairAccel(cfg.g, prev[f].m,
                                  (prev[f].p[1] - prev[e].p[1]) * TreeScale,
                                  (prev[f].p[2] - prev[e].p[2]) * TreeScale,
                                  cfg.softening * cfg.softening)

\* A Barnes-Hut pass over a pinned and two unpinned bodies: the pinned one is
\* left at rest and pulls on another
C8_Witness ==
    /\ lastOp.name = "gravity" /\ ~lastOp.skipped /\ grav.status = "ok"
    /\ grav.route = "tree"
    /\ Len(grav.ids) = 3
    /\ \E e \in Ents : \E f \in Ents :
          /\ e # f
          /\ prev[e].pinned /\ bodies[e].a = Zero2
          /\ ~prev[f].pinned /\ e \in grav.srcs[f] /\ bodies[f].a # Zero2

\* C9: SpatialPartition::build returns after finitely many subdivisions for
\* every finite non-empty body list, lists with two or more bodies at the same
\* position included.
C9_BuildTerminates ==
    (lastOp.name = "gravity" /\ ~lastOp.skipped /\ grav.route = "tree")
        => grav.status = "ok"

\* C10: for every opening angle theta >= 0, the target's own mass is in no
\* term of the sum compute_force returns: neither in a leaf term nor in the
\* aggregate of an internal node taken as a pseudo-body.
C10_NoSelfMass ==
    (lastOp.name = "gravity" /\ ~lastOp.skipped /\ grav.route = "tree"
     /\ grav.status = "ok")
        => \A e \in Ents : e \notin grav.srcs[e]

\* C11: at theta = 0, for valid bodies at pairwise distinct positions, a
\* Barnes-Hut evaluation that returns takes no internal node as a pseudo-body
\* and sums, for every unpinned body, the terms of exactly the other valid
\* bodies; the acceleration written is the one the exact pairwise evaluator
\* writes for the same world.
C11_ThetaZeroIsExact ==
    (/\ lastOp.name = "gravity" /\ ~lastOp.skipped
     /\ grav.route = "tree" /\ grav.status = "ok"
     /\ cfg.bh_theta.num = 0
     /\ \A k \in 1..Len(grav.ids) : \A j \in 1..Len(grav.ids) :
            k # j => prev[grav.ids[k]].p # prev[grav.ids[j]].p)
    => LET ids == grav.ids
           valid == {ids[k] : k \in 1..Len(ids)}
           exact == compute_gravity(prev, [cfg EXCEPT !.bh_threshold = NumBodies])
       IN  /\ exact.route = "exact"
           /\ \A e \in valid :
                 /\ grav.nodes[e] = {}
                 /\ ~prev[e].pinned => grav.srcs[e] = valid \ {e}
                 /\ bodies[e].a = exact.w[e].a

\* A Barnes-Hut pass at theta = 0 over three valid bodies at three places,
\* the tree having internal nodes, with a body pulled by the two others
C11_Witness ==
    /\ lastOp.name = "gravity" /\ ~lastOp.skipped
    /\ grav.route = "tree" /\ grav.status = "ok"
    /\ cfg.bh_theta.num = 0
    /\ Len(grav.ids) = 3
    /\ Cardinality({prev[e].p : e \in Ents}) = 3
    /\ Cardinality(DOMAIN grav.tree) > 5
    /\ \E e \in Ents : Cardinality(grav.srcs[e]) = 2 /\ bodies[e].a # Zero2

\* C12: for valid unpinned bodies on the exact pairwise path, without speed
\* cap and without collisions, the accelerations one force evaluation writes
\* satisfy sum(m_i a_i) = 0 up to the rounding of the terms (exactly when the
\* masses are equal, a pair's two terms being opposite), and the total
\* momentum sum(m_i v_i) after the Velocity Verlet substeps of a frame is the
\* momentum before up to the rounding of the substeps (exactly when the masses
\* are equal and the halving of the substep does not round).
C12_MomentumConserved ==
    LET RECURSIVE Sum(_, _)
        Sum(f, e) == IF e = 0 THEN 0 ELSE f[e] + Sum(f, e - 1)
        n == Cardinality({e \in Ents : prev[e].alive})
        M == Sum([e \in Ents |-> prev[e].m], NumBodies)
        equal == \A e \in Ents : \A f \in Ents :
                    prev[e].alive /\ prev[f].alive => prev[e].m = prev[f].m
        forceTol == (n - 1) * M
        F(w, c) == Sum([e \in Ents |-> w[e].m * w[e].a[c]], NumBodies)
        P(w, c) == Sum([e \in Ents |-> w[e].m * w[e].v[c]], NumBodies)
        stepTol == integ.nSteps * (forceTol * integ.dtSub + M)
    IN  /\ (lastOp.name = "gravity" /\ ~lastOp.skipped /\ grav.route = "exact") =>
               \A c \in 1..2 :
                  /\ Abs(F(bodies, c)) <= forceTol
                  /\ equal => F(bodies, c) = 0
        /\ (lastOp.name = "integrate" /\ ~lastOp.skipped /\ integ.status = "ok") =>
               \A c \in 1..2 :
                  /\ Abs(P(bodies, c) - P(prev, c)) <= stepTol
                  /\ (equal /\ integ.dtSub % 2 = 0) => P(bodies, c) = P(prev, c)
                  /\ Abs(F(bodies, c)) <= forceTol

\* Two substeps of Velocity Verlet over three bodies of different masses
\* that pull on one another and change their velocities
C12_Witness ==
    /\ lastOp.name = "integrate" /\ ~lastOp.skipped /\ integ.status = "ok"
    /\ cfg.integrator = 1 /\ cfg.max_speed = 0
    /\ integ.nSteps = 2
    /\ \A e \in Ents : prev[e].alive /\ prev[e].a # Zero2 /\ bodies[e].v # prev[e].v
    /\ \E e \in Ents : \E f \in Ents : prev[e].m # prev[f].m

\* C13: for every effective timestep dtEff >= 0, maxSubstep > 0 and
\* maxSubstepsPerFrame >= 1, integrate performs exactly
\* nSteps = clamp(ceil(dtEff / maxSubstep), 1, maxSubstepsPerFrame) substeps,
\* all of the size dtSub with nSteps * dtSub = dtEff (up to the rounding of
\* the quotient); at least one when dtEff = 0, never more than
\* maxSubstepsPerFrame.
C13_SubstepSplit ==
    (/\ lastOp.name = "integrate" /\ ~lastOp.skipped /\ integ.status = "ok"
     /\ integ.dt >= 0 /\ cfg.max_substep > 0 /\ cfg.max_substeps_per_frame >= 1)
    => LET want == Max(1, Min((integ.dt + cfg.max_substep - 1) \div cfg.max_substep,
                              cfg.max_substeps_per_frame))
           done == Cardinality({k \in 1..Len(integ.events) :
                                   integ.events[k] \in {"velpos", "pos"}})
       IN  /\ integ.nSteps = want
           /\ done = want
           /\ done >= 1 /\ done <= cfg.max_substeps_per_frame
           /\ integ.nSteps * integ.dtSub <= integ.dt
           /\ integ.dt - integ.nSteps * integ.dtSub < integ.nSteps

\* C14: compute_diagnostics is read-only: the call the collision system makes
\* after resolving (the system runs only while paused is false) leaves the
\* paused flag false, both when it reports ok = true and when it reports
\* ok = false.
C14_DiagnosticsReadOnly ==
    (lastOp.name = "collision" /\ ~lastOp.skipped /\ pc = "gravity")
        => ~cfg.paused

\* C15: compute_diagnostics reports ok = false exactly when the term of some
\* body (a non-finite mass, velocity or position) or of some pair (a distance
\* of zero without softening) makes an accumulator non-finite, whatever the
\* bodies summed after it; a body set whose terms are all finite gives
\* ok = true.
C15_DiagnosticsOkFlag ==
    (lastOp.name = "collision" /\ ~lastOp.skipped /\ pc = "gravity") =>
        LET live == {e \in Ents : bodies[e].alive}
            badBody(e) == ~(/\ IsFinite(bodies[e].m) /\ VFinite(bodies[e].v)
                            /\ VFinite(bodies[e].p))
            badPair(e, f) == e # f /\ bodies[e].p = bodies[f].p /\ cfg.softening = 0
            poisoned == \/ \E e \in live : badBody(e)
                        \/ \E e \in live : \E f \in live : badPair(e, f)
        IN  diag.ok = ~poisoned

\* A world whose first body has a non-finite velocity and whose other two
\* bodies are finite: ok is false
C15_Witness ==
    /\ lastOp.name = "collision" /\ ~lastOp.skipped /\ pc = "gravity"
    /\ bodies[1].alive /\ ~VFinite(bodies[1].v)
    /\ \A e \in Ents \ {1} :
          /\ bodies[e].alive /\ IsFinite(bodies[e].m) /\ bodies[e].m > 0
          /\ VFinite(bodies[e].v) /\ VFinite(bodies[e].p)
    /\ ~diag.ok

\* C16: with no body or exactly one valid body, every system of the frame
\* completes (nothing crashes or hangs), no entity is created or destroyed,
\* collision resolution changes nothing, the acceleration of the single body
\* after a force evaluation is zero, and compute_diagnostics reports ok = true
\* with potential energy 0.
C16_FewBodiesNoOp ==
    /\ pc \notin {"crashed", "hung"}
    /\ {e \in Ents : bodies[e].alive} = {e \in Ents : prev[e].alive}
    /\ (lastOp.name = "collision" /\ ~lastOp.skipped) =>
          /\ bodies = prev /\ log = << >>
          /\ diag.ok /\ diag.potential = 0
    /\ (lastOp.name = "gravity" /\ ~lastOp.skipped) =>
          /\ grav.status = "ok"
          /\ \A e \in Ents : bodies[e].alive => bodies[e].a = Zero2
    /\ (lastOp.name = "integrate" /\ ~lastOp.skipped) => integ.status = "ok"

\* A force evaluation through the tree over a single body that carried an
\* acceleration from before
C16_Witness ==
    /\ lastOp.name = "gravity" /\ ~lastOp.skipped
    /\ grav.route = "tree"
    /\ Cardinality({e \in Ents : bodies[e].alive}) = 1
    /\ \E e \in Ents : prev[e].alive /\ prev[e].a # Zero2 /\ bodies[e].a = Zero2

\* C17: collision resolution treats a pair as colliding exactly when the
\* distance between the two positions is strictly less than the sum of the
\* radii: every pair it merges is strictly closer than that, and a pair that
\* just touches is left unmerged.
C17_StrictOverlap ==
    (lastOp.name = "collision" /\ ~lastOp.skipped) =>
        \A k \in 1..Len(log) :
            log[k].kind = "merge" =>
                LET dx == log[k].dp[1] - log[k].sp[1]
                    dy == log[k].dp[2] - log[k].sp[2]
                    rsum == RadiusFromMass(log[k].sm) + RadiusFromMass(log[k].dm)
                IN  dx * dx + dy * dy < rsum * rsum

\* C18: after the substeps of integrate with maxSpeed > 0, under either
\* integrator, every unpinned body has speed <= maxSpeed; a velocity that
\* was rescaled (seen after a single substep, where the velocity before the
\* cap is v + a dt under Euler and v + (a0 + a) dt / 2 under Verlet) keeps
\* its direction and has the magnitude of the cap up to the rounding of its
\* components; a velocity within the cap, and every velocity when
\* maxSpeed = 0, is left as computed.
C18_SpeedCap ==
    (lastOp.name = "integrate" /\ ~lastOp.skipped /\ integ.status = "ok") =>
        \A e \in Ents :
            (bodies[e].alive /\ ~bodies[e].pinned) =>
                LET v == bodies[e].v
                    c == cfg.max_speed
                    dt == integ.dtSub
                    u == IF cfg.integrator = 0
                         THEN Vec(prev[e].v[1] + prev[e].a[1] * dt,
                                  prev[e].v[2] + prev[e].a[2] * dt)
                         ELSE Vec(prev[e].v[1]
                                    + QDiv((bodies[e].a0[1] + bodies[e].a[1]) * dt, 2),
                                  prev[e].v[2]
                                    + QDiv((bodies[e].a0[2] + bodies[e].a[2]) * dt, 2))
                    over == c > 0 /\ u[1] * u[1] + u[2] * u[2] > c * c
                IN  /\ c > 0 => v[1] * v[1] + v[2] * v[2] <= c * c
                    /\ (integ.nSteps = 1 /\ ~over) => v = u
                    /\ (integ.nSteps = 1 /\ over) =>
                          /\ v[1] * u[1] >= 0 /\ v[2] * u[2] >= 0
                          /\ Abs(v[1] * u[2] - v[2] * u[1]) <= Abs(u[1]) + Abs(u[2])
                          /\ (Abs(v[1]) + 1) * (Abs(v[1]) + 1)
                               + (Abs(v[2]) + 1) * (Abs(v[2]) + 1) > c * c

\* A substep that rescaled a diagonal velocity of more than the cap in both
\* components
C18_Witness ==
    /\ lastOp.name = "integrate" /\ ~lastOp.skipped /\ integ.status = "ok"
    /\ cfg.max_speed = 5 /\ integ.nSteps = 1
    /\ \E e \in Ents :
          /\ bodies[e].alive /\ ~bodies[e].pinned
          /\ Abs(prev[e].v[1]) > 5 /\ Abs(prev[e].v[2]) > 5
          /\ bodies[e].v # prev[e].v
          /\ bodies[e].v[1] # 0 /\ bodies[e].v[2] # 0
          /\ bodies[e].a # Zero2

\* C19: compute_gravity takes the exact pairwise path whenever the number of
\* valid bodies is <= bh_threshold, and the quadtree path whenever it is
\* greater, every unpinned valid body (and no pinned one) being queried
\* through the tree; the number compared with the threshold is that of the
\* valid bodies, not of all bodies.
C19_PathSelection ==
    (lastOp.name = "gravity" /\ ~lastOp.skipped) =>
        LET ok(b) == /\ b.alive /\ VFinite(b.p) /\ VFinite(b.v)
                     /\ IsFinite(b.m) /\ b.m > 0
            valid == {e \in Ents : ok(prev[e])}
            n == Cardinality(valid)
        IN  /\ n = 0 => grav.route = "none"
            /\ (n > 0 /\ n <= cfg.bh_threshold) => grav.route = "exact"
            /\ n > cfg.bh_threshold =>
                  /\ grav.route = "tree"
                  /\ grav.status = "ok" =>
                        \A e \in valid :
                            IF prev[e].pinned THEN grav.srcs[e] = {}
                            ELSE grav.srcs[e] # {}

\* Three bodies, two of them valid, with the threshold at two: the exact path
\* is taken although the world holds more bodies than the threshold
C19_Witness ==
    /\ lastOp.name = "gravity" /\ ~lastOp.skipped
    /\ cfg.bh_threshold = NumBodies - 1
    /\ Cardinality({e \in Ents : prev[e].alive}) = NumBodies
    /\ Len(grav.ids) = NumBodies - 1
    /\ grav.route = "exact"
    /\ \E e \in Ents : bodies[e].a # prev[e].a

\* C21: the Diagnostics published in an unpaused step describe the bodies at
\* the end of that step: when the last system of the step has run, the
\* singleton holds what compute_diagnostics gives on the bodies as they are
\* after collision resolution, force evaluation and integration.
C21_DiagnosticsLast ==
    (lastOp.name = "trails" /\ ~lastOp.skipped)
        => diag = compute_diagnostics(bodies, cfg.g, cfg.softening * cfg.softening,
                                      cfg.paused).out

\* Two live bodies of w that Collision::resolve would merge
Mergeable(w) ==
    \E e \in Ents : \E f \in Ents :
        /\ e < f /\ Collidable(w[e]) /\ Collidable(w[f])
        /\ Overlap(BodyRefOf(w, e), BodyRefOf(w, f))
        /\ ~(w[e].pinned /\ w[f].pinned)

\* C22: Collision::resolve runs once per unpaused step and first: the force
\* evaluation of the gravity system directly follows the collision system of
\* the same step, integration directly follows that force evaluation, the
\* collision system runs only at the start of a step, and neither the force
\* evaluation nor integration (whatever the number of substeps and the
\* integrator) merges or destroys a body.
C22_CollisionOncePerStep ==
    [][/\ (lastOp'.name = "gravity" /\ ~lastOp'.skipped)
            => (lastOp.name = "collision" /\ ~lastOp.skipped)
       /\ (lastOp'.name = "integrate" /\ ~lastOp'.skipped)
            => (lastOp.name = "gravity" /\ ~lastOp.skipped)
       /\ (lastOp'.name = "collision")
            => lastOp.name \in {"init", "ui", "trails"}
       /\ (lastOp'.name \in {"gravity", "integrate", "trails"})
            => /\ log' = log
               /\ \A e \in Ents :
                    /\ bodies'[e].alive = bodies[e].alive
                    /\ bodies'[e].m = bodies[e].m
                    /\ bodies'[e].hasRadius = bodies[e].hasRadius
                    /\ bodies'[e].radius = bodies[e].radius]_vars

\* Integration in two or more substeps has brought two bodies into overlap
\* that were apart before it, and both are still there
C22_Witness ==
    /\ lastOp.name = "integrate" /\ ~lastOp.skipped /\ integ.status = "ok"
    /\ integ.nSteps >= 2
    /\ ~Mergeable(prev)
    /\ Mergeable(bodies)

\* C23: Velocity Verlet: every substep advances the positions with the
\* acceleration held at its start and saves that acceleration, then evaluates
\* the forces once at the new positions, then advances and caps the
\* velocities with the mean of the saved and the new acceleration; the
\* integration of nSteps substeps makes nSteps force evaluations, after the
\* one of the gravity system.
C23_VerletOrder ==
    (lastOp.name = "integrate" /\ ~lastOp.skipped /\ cfg.integrator # 0
        /\ integ.status = "ok") =>
        LET dt == integ.dtSub
            half(x) == QDiv(x, 2)
            moved(w) == [e \in Ents |->
                           IF w[e].alive /\ ~w[e].pinned
                           THEN [w[e] EXCEPT
                                   !.p = Vec(Add(@[1], Add(Mul(w[e].v[1], dt),
                                                     half(Mul(w[e].a[1], dt * dt)))),
                                             Add(@[2], Add(Mul(w[e].v[2], dt),
                                                     half(Mul(w[e].a[2], dt * dt))))),
                                   !.a0 = w[e].a]
                           ELSE w[e]]
            kicked(w) == [e \in Ents |->
                            IF w[e].alive /\ ~w[e].pinned
                            THEN [w[e] EXCEPT
                                    !.v = CapSpeed(
                                            Vec(Add(@[1], half(Mul(Add(w[e].a0[1],
                                                                 w[e].a[1]), dt))),
                                                Add(@[2], half(Mul(Add(w[e].a0[2],
                                                                 w[e].a[2]), dt)))),
                                            cfg.max_speed)]
                            ELSE w[e]]
        IN  /\ integ.evals = integ.nSteps
            /\ Len(integ.events) = 3 * integ.nSteps
            /\ \A k \in 1..Len(integ.events) :
                  integ.events[k] = <<"pos", "force", "vel">>[((k - 1) % 3) + 1]
            /\ \A g1 \in {compute_gravity(moved(prev), cfg).w} :
               \A w1 \in {kicked(g1)} :
                  /\ integ.nSteps = 1 => bodies = w1
                  /\ integ.nSteps = 2 =>
                        \A m2 \in {moved(w1)} :
                        \A g2 \in {compute_gravity(m2, cfg).w} : bodies = kicked(g2)

\* A single Verlet substep in which an unpinned body started with one non-zero
\* acceleration and ended with another: the velocity took the mean of the two
C23_Witness ==
    /\ lastOp.name = "integrate" /\ ~lastOp.skipped /\ cfg.integrator # 0
    /\ integ.status = "ok" /\ integ.nSteps = 1
    /\ \E e \in Ents :
          /\ bodies[e].alive /\ ~bodies[e].pinned
          /\ prev[e].a # Zero2 /\ bodies[e].a # prev[e].a
          /\ bodies[e].a0 = prev[e].a
          /\ bodies[e].v # prev[e].v

\* C24: Semi-Implicit Euler: the integration of nSteps substeps makes
\* nSteps - 1 force evaluations, one between each two substeps, which with
\* the one of the gravity system are nSteps in the step; every substep uses
\* the accelerations evaluated at the positions it starts from; and in a
\* substep every unpinned body gets v + a dt, capped, as its velocity and then
\* p + v dt with that new velocity as its position.
C24_EulerOrder ==
    (lastOp.name = "integrate" /\ ~lastOp.skipped /\ cfg.integrator = 0
        /\ integ.status = "ok") =>
        LET dt == integ.dtSub
            vNew(b) == CapSpeed(Vec(Add(b.v[1], Mul(b.a[1], dt)),
                                    Add(b.v[2], Mul(b.a[2], dt))), cfg.max_speed)
            pNew(b) == Vec(Add(b.p[1], Mul(vNew(b)[1], dt)),
                           Add(b.p[2], Mul(vNew(b)[2], dt)))
            substep(w) == [e \in Ents |->
                             IF w[e].alive /\ ~w[e].pinned
                             THEN [w[e] EXCEPT !.v = vNew(w[e]), !.p = pNew(w[e])]
                             ELSE w[e]]
        IN  /\ integ.evals = integ.nSteps - 1
            /\ Len(integ.events) = 2 * integ.nSteps - 1
            /\ \A k \in 1..Len(integ.events) :
                  integ.events[k] = IF k % 2 = 1 THEN "velpos" ELSE "force"
            /\ \A w1 \in {substep(prev)} :
                  /\ integ.nSteps = 1 => bodies = w1
                  /\ integ.nSteps = 2 =>
                        \A g1 \in {compute_gravity(w1, cfg).w} : bodies = substep(g1)

\* Two Euler substeps in which an unpinned body with a non-zero acceleration
\* changed its velocity and moved, the acceleration being refreshed once
C24_Witness ==
    /\ lastOp.name = "integrate" /\ ~lastOp.skipped /\ cfg.integrator = 0
    /\ integ.status = "ok" /\ integ.nSteps = 2 /\ integ.evals = 1
    /\ \E e \in Ents :
          /\ bodies[e].alive /\ ~bodies[e].pinned
          /\ prev[e].a # Zero2 /\ bodies[e].a # prev[e].a
          /\ bodies[e].v # prev[e].v /\ bodies[e].p # prev[e].p

\* C25: in the tree a force evaluation built, a body whose x equals the x of
\* the centre of a node above it is in an east child of that node, and a body
\* whose y equals the y of the centre is in a south child, so that a body at
\* the centre is in the SE child.
C25_TiesGoSouthEast ==
    (lastOp.name = "gravity" /\ ~lastOp.skipped /\ grav.route = "tree"
        /\ grav.status = "ok") =>
        \A q \in DOMAIN grav.tree :
            grav.tree[q].body # 0 =>
                \A n \in 0..(Len(q) - 1) :
                    LET node == grav.tree[SubSeq(q, 1, n)]
                        pos == TreeBodies(bodies, grav.ids)[grav.tree[q].body].pos
                    IN  /\ pos[1] = node.center[1] => q[n + 1] \in {1, 3}
                        /\ pos[2] = node.center[2] => q[n + 1] \in {2, 3}

\* C25 as amended: a body whose x equals the x of the centre of a node above
\* it is in a west child of that node, and a body whose y equals the y of the
\* centre is in a north child, so that a body at the centre is in the NW
\* child; east and south take the strictly greater coordinates.
C25_TiesGoNorthWest ==
    (lastOp.name = "gravity" /\ ~lastOp.skipped /\ grav.route = "tree"
        /\ grav.status = "ok") =>
        \A q \in DOMAIN grav.tree :
            grav.tree[q].body # 0 =>
                \A n \in 0..(Len(q) - 1) :
                    LET node == grav.tree[SubSeq(q, 1, n)]
                        pos == TreeBodies(bodies, grav.ids)[grav.tree[q].body].pos
                    IN  /\ q[n + 1] \in {1, 3} <=> pos[1] > node.center[1]
                        /\ q[n + 1] \in {2, 3} <=> pos[2] > node.center[2]

\* A tree of three bodies in which one body is at the centre of the root, and
\* so on both of its centre lines, and is in the NW child
C25_Witness ==
    /\ lastOp.name = "gravity" /\ ~lastOp.skipped /\ grav.route = "tree"
    /\ grav.status = "ok" /\ Len(grav.ids) = 3
    /\ \E q \in DOMAIN grav.tree :
          /\ grav.tree[q].body # 0 /\ Len(q) >= 1 /\ q[1] = 0
          /\ TreeBodies(bodies, grav.ids)[grav.tree[q].body].pos
                = grav.tree[<< >>].center

\* C26: the tree built from a body list with pairwise distinct positions:
\* every body of the list is referenced by exactly one node, that node is a
\* leaf, and it lies at the end of the chain of quadrants get_quadrant gives
\* for the body's position; a leaf has the mass and position of its body, or
\* zero without one; an internal node has the sum of its children's masses
\* and their mass-weighted mean position; the root has the total mass.
C26_TreeStructure ==
    (lastOp.name = "gravity" /\ ~lastOp.skipped /\ grav.route = "tree"
        /\ grav.status = "ok") =>
        LET T == grav.tree
            tb == TreeBodies(bodies, grav.ids)
            kid(q, c) == T[Append(q, c)]
            RECURSIVE Total(_)
            Total(k) == IF k = 0 THEN 0 ELSE tb[k].mass + Total(k - 1)
        IN  (\A j \in 1..Len(tb) : \A k \in 1..Len(tb) :
                j # k => tb[j].pos # tb[k].pos) =>
            /\ \A k \in 1..Len(tb) :
                  Cardinality({q \in DOMAIN T : T[q].body = k}) = 1
            /\ \A q \in DOMAIN T :
                  /\ T[q].body \in 0..Len(tb)
                  /\ T[q].body # 0 =>
                        /\ is_leaf(T, q)
                        /\ T[q].mass = tb[T[q].body].mass
                        /\ T[q].com = tb[T[q].body].pos
                        /\ \A n \in 0..(Len(q) - 1) :
                              q[n + 1] = get_quadrant(T[SubSeq(q, 1, n)],
                                                      tb[T[q].body].pos)
                  /\ (is_leaf(T, q) /\ T[q].body = 0) =>
                        (T[q].mass = 0 /\ T[q].com = Zero2)
                  /\ ~is_leaf(T, q) =>
                        /\ \A c \in 0..3 : Append(q, c) \in DOMAIN T
                        /\ T[q].mass = kid(q, 0).mass + kid(q, 1).mass
                                       + kid(q, 2).mass + kid(q, 3).mass
                        /\ T[q].mass > 0
                        /\ \A x \in 1..2 :
                              T[q].com[x] =
                                QDiv(kid(q, 0).mass * kid(q, 0).com[x]
                                     + kid(q, 1).mass * kid(q, 1).com[x]
                                     + kid(q, 2).mass * kid(q, 2).com[x]
                                     + kid(q, 3).mass * kid(q, 3).com[x], T[q].mass)
            /\ T[<< >>].mass = Total(Len(tb))

\* A tree of three bodies with an internal node below the root that holds a
\* body of mass 1 and a body of mass 3
C26_Witness ==
    /\ lastOp.name = "gravity" /\ ~lastOp.skipped /\ grav.route = "tree"
    /\ grav.status = "ok" /\ Len(grav.ids) = 3
    /\ grav.tree[<< >>].mass = 5
    /\ \E q \in DOMAIN grav.tree :
          /\ Len(q) = 1 /\ ~is_leaf(grav.tree, q)
          /\ grav.tree[q].mass = 4
          /\ Cardinality(BodiesUnder(grav.tree, q)) = 2

\* C27: after one call of Collision::resolve no two live bodies are closer
\* than the sum of their radii, the radii being those after the call, unless
\* both are pinned.
C27_NoOverlapSurvives ==
    (lastOp.name = "collision" /\ ~lastOp.skipped /\ pc # "crashed") =>
        \A e \in Ents : \A f \in Ents :
            (e < f /\ Collidable(bodies[e]) /\ Collidable(bodies[f])
                /\ ~(bodies[e].pinned /\ bodies[f].pinned)) =>
                LET dx == bodies[f].p[1] - bodies[e].p[1]
                    dy == bodies[f].p[2] - bodies[e].p[2]
                    rsum == radius_of(bodies[e]) + radius_of(bodies[f])
                IN  ~(dx * dx + dy * dy < rsum * rsum)

\* C28: a body destroyed by a merge is out of the pass: every overlapping
\* pair the pass goes on to handle consists of two bodies that are alive at
\* that moment, so that a destroyed body is neither survivor nor victim
\* again, nothing is written through its handle, and no entity is destroyed
\* twice; whether it was the inner-loop or the outer-loop body of its merge.
C28_DestroyedIsOut ==
    (lastOp.name = "collision" /\ ~lastOp.skipped) =>
        /\ \A k \in 1..Len(log) : log[k].sLive /\ log[k].dLive
        /\ \A j \in 1..Len(log) : \A k \in 1..Len(log) :
              (j < k /\ log[j].kind = "merge") =>
                  log[j].d \notin {log[k].a, log[k].b}

\* C29: a merge pass over three or more valid bodies conserves the total
\* mass: the masses of the live bodies after the call add up to the same as
\* before it, and the number of live bodies has dropped by the number of
\* merges the pass performed.
C29_PassConservesMass ==
    (/\ lastOp.name = "collision" /\ ~lastOp.skipped /\ pc # "crashed"
     /\ Cardinality({e \in Ents : Valid(prev[e])}) >= 3
     /\ \A e \in Ents : prev[e].alive => Valid(prev[e])) =>
        LET RECURSIVE MassOf(_, _)
            MassOf(w, e) == IF e = 0 THEN 0
                            ELSE (IF w[e].alive THEN w[e].m ELSE 0) + MassOf(w, e - 1)
            live(w) == Cardinality({e \in Ents : w[e].alive})
            merges == Cardinality({k \in 1..Len(log) : log[k].kind = "merge"})
        IN  /\ MassOf(bodies, NumBodies) = MassOf(prev, NumBodies)
            /\ live(bodies) = live(prev) - merges

\* C30: when the diagnostics of a step report a non-finite value the paused
\* flag is set as the collision system ends, before the force evaluation of
\* that step; and every system that runs while the flag is set is skipped:
\* it evaluates no force, integrates nothing, adds no trail point, publishes
\* no diagnostics, and leaves every component of every body and the set of
\* live entities as they were.
C30_NonFinitePauses ==
    [][/\ (lastOp'.name = "collision" /\ ~lastOp'.skipped /\ pc' # "crashed"
            /\ ~diag'.ok) => (cfg'.paused /\ pc' = "gravity")
       /\ (cfg.paused /\ lastOp'.name # "ui") =>
            /\ lastOp'.skipped
            /\ bodies' = bodies /\ trails' = trails /\ diag' = diag
            /\ grav' = grav /\ integ' = integ /\ log' = log
            /\ cfg' = cfg]_vars

\* The first step of a run has ended: its diagnostics were not finite, no
\* force was evaluated, nothing was integrated, no trail point was added, and
\* a body with a finite non-zero velocity is where it was
C30_Witness ==
    /\ lastOp.name = "trails" /\ lastOp.skipped /\ frame = 1
    /\ ~diag.ok /\ cfg.paused
    /\ grav = NoGrav /\ integ = NoInteg
    /\ \A e \in Ents : trails[e] = 0
    /\ \E e \in Ents :
          /\ bodies[e].alive /\ ~bodies[e].pinned
          /\ VFinite(bodies[e].v) /\ bodies[e].v # Zero2
          /\ bodies[e] = prev[e]

====
